---- MODULE Spec2Model ----
(***************************************************************************)
(* Pivot-frequency analysis of luckshury/whop-web-app                      *)
(* (src/pages/pivot_analysis.py).                                          *)
(*                                                                         *)
(* Conventions of the model                                                *)
(*   - an instant (a candle's start_time) is a number of quarter-hours     *)
(*     since an epoch that is a Monday 00:00 UTC, so 96 quarters make a    *)
(*     day, date = t \div 96, hour = (t % 96) \div 4, weekday = date % 7   *)
(*     (Monday = 0) and the ISO (year, week) pair of pandas' isocalendar   *)
(*     is the week index date \div 7, which orders weeks the same way;     *)
(*   - a percentage rounded to one decimal is kept as an integer number of *)
(*     tenths (33.3 is 333);                                               *)
(*   - a value that may be None is a sequence of length at most one: None  *)
(*     is <<>> and a present value v is <<v>> (Some(v)), read by Val;      *)
(*   - a cell of the weekly table that holds a number of days or the empty *)
(*     string is the record [days |-> n] or [str |-> ""].                  *)
(***************************************************************************)
EXTENDS Integers, Sequences, FiniteSets, TLC

(***************************************************************************)
(* Bounds of the explored input space.                                     *)
(***************************************************************************)
\* candles of the 15-minute history lie on the days 0..MaxDay
MaxDay == 2
\* candles of the D (one per day) history lie in the weeks 0..MaxWeek
MaxWeek == 1
\* a history holds at most MaxCandles candles
MaxCandles == 3
\* the long histories of the percentage checks span the days, or the weeks,
\* 0..MaxTallyDay with at most one candle each
MaxTallyDay == 4

None == <<>>
Some(v) == <<v>>
Val(o) == o[1]

VARIABLES
    market,                     \* the exchange's candle history per interval
    selected_weekdays_numeric,  \* the sidebar's weekday filter
    now,                        \* datetime.now(timezone.utc): [date, hour]
    local_today,                \* date.today() on the host
    pivot_data,                 \* st.session_state.pivot_data
    pivot_stats,                \* st.session_state.pivot_stats
    analysis,                   \* locals of the last calculate_pivot_analysis call
    view,                       \* what the last render computed and showed
    pivot_data_written,         \* columns of the stored table object overwritten in place
    fetch,                      \* a running fetch_bybit_data call: chunks, futures, rows
    backfill,                   \* a running fetch_bybit_candles call of the backfill script
    cache,                      \* pivot_analysis_cache, st.cache_data's memo and the clock
    session,                    \* query parameters, st.session_state of auth, its verdict
    reader                      \* a running fetch_candles_from_supabase call

vars == <<market, selected_weekdays_numeric, now, local_today,
          pivot_data, pivot_stats, analysis, view, pivot_data_written,
          fetch, backfill, cache, session, reader>>

\* the state of the collaborators of the page: the fetch, the backfill
\* script, the analysis cache, the authentication and the candle store
serviceVars == <<fetch, backfill, cache, session, reader>>
\* a collaborator that is not running
Idle == [pc |-> "idle"]
ServicesIdle ==
    /\ fetch = Idle
    /\ backfill = Idle
    /\ cache = Idle
    /\ session = Idle
    /\ reader = Idle

(***************************************************************************)
(* Timestamps (pandas .dt accessors on the UTC start_time column).         *)
(***************************************************************************)
DtDate(t) == t \div 96
\* (a slip to test C4 against: the quarter of the day taken for the hour)
DtHour_QuarterOfDay(t) == t % 96
DtHour(t) == (t % 96) \div 4
DtDayOfWeek(t) == DtDate(t) % 7
IsoWeek(t) == DtDate(t) \div 7

AllWeekdays == 0..6
weekday_names == <<"Monday", "Tuesday", "Wednesday", "Thursday", "Friday",
                   "Saturday", "Sunday">>

(***************************************************************************)
(* The histories the exchange can hold: candles [start_time, high, low]    *)
(* with low <= high, unique by start_time, ascending.                      *)
(***************************************************************************)
PriceLevels == {1, 2}
CandlePrices == {p \in PriceLevels \X PriceLevels : p[2] <= p[1]}

\* 15-minute candles opening at 03:15 and 09:00 of each day
QuartersOfDay == {13, 36}
Grid15 == {d * 96 + q : d \in 0..MaxDay, q \in QuartersOfDay}
\* D candles opening at 00:00 on Monday and Thursday of each week
DaysOfWeek == {0, 3}
GridD == {(w * 7 + d) * 96 : w \in 0..MaxWeek, d \in DaysOfWeek}

RECURSIVE SetToSeq(_)
SetToSeq(S) ==
    IF S = {} THEN <<>>
    ELSE LET m == CHOOSE x \in S : \A y \in S : x <= y
         IN  <<m>> \o SetToSeq(S \ {m})

MkSeries(f) ==
    LET ts == SetToSeq(DOMAIN f)
    IN  [i \in 1..Len(ts) |->
            [start_time |-> ts[i], high |-> f[ts[i]][1], low |-> f[ts[i]][2]]]

Histories(grid) ==
    {MkSeries(f) : f \in UNION {[T -> CandlePrices] :
                       T \in {T \in SUBSET grid : Cardinality(T) <= MaxCandles}}}

(***************************************************************************)
(* pandas helpers used by the analysis.                                    *)
(***************************************************************************)
\* df.sort_values('start_time'): ascending, rows of equal key keep their order
RECURSIVE SortValues(_)
SortValues(df) ==
    IF df = <<>> THEN <<>>
    ELSE LET m == CHOOSE i \in DOMAIN df :
                    /\ \A j \in DOMAIN df : df[i].start_time <= df[j].start_time
                    /\ \A j \in 1..(i - 1) : df[j].start_time > df[i].start_time
         IN  <<df[m]>> \o
             SortValues([k \in 1..(Len(df) - 1) |-> IF k < m THEN df[k] ELSE df[k + 1]])

\* (a slip to test C1 against: the last row holding the maximum high)
IdxMaxHigh_Last(df) ==
    CHOOSE i \in DOMAIN df :
        /\ \A j \in DOMAIN df : df[j].high <= df[i].high
        /\ \A j \in (i + 1)..Len(df) : df[j].high < df[i].high

\* df['high'].idxmax(): the first row holding the maximum high
IdxMaxHigh(df) ==
    CHOOSE i \in DOMAIN df :
        /\ \A j \in DOMAIN df : df[j].high <= df[i].high
        /\ \A j \in 1..(i - 1) : df[j].high < df[i].high

\* (a slip to test C15 against: the last of several equal lows taken)
IdxMinLow_Last(df) ==
    CHOOSE i \in DOMAIN df :
        /\ \A j \in DOMAIN df : df[j].low >= df[i].low
        /\ \A j \in (i + 1)..Len(df) : df[j].low > df[i].low

\* df['low'].idxmin(): the first row holding the minimum low
IdxMinLow(df) ==
    CHOOSE i \in DOMAIN df :
        /\ \A j \in DOMAIN df : df[j].low >= df[i].low
        /\ \A j \in 1..(i - 1) : df[j].low > df[i].low

\* (a slip to test C8 against: the filter left out)
FilterWeekdays_Off(df, selected_weekdays) == df

\* df[df['weekday'].isin(selected_weekdays)]
FilterWeekdays(df, selected_weekdays) ==
    SelectSeq(df, LAMBDA c : DtDayOfWeek(c.start_time) \in selected_weekdays)

\* series.value_counts().get(v, 0)
ValueCount(rows, col, v) == Cardinality({i \in DOMAIN rows : rows[i][col] = v})

\* f"{hour:02d}:00": the two digits of the label (the ":00" suffix is constant)
HourLabel(hour) == <<hour \div 10, hour % 10>>

\* (a slip to test C9 against: "<=" on the last digit)
StrLess_OrEqual(a, b) == a[1] < b[1] \/ (a[1] = b[1] /\ a[2] <= b[2])

\* Python's str comparison of two "HH:00" labels (lexicographic on the digits)
StrLess(a, b) == a[1] < b[1] \/ (a[1] = b[1] /\ a[2] < b[2])

\* (a slip to test C17 against: the factor 100 left out)
RoundPct_NoScale(count, denominator) ==
    LET n == count * 10
        q == n \div denominator
        r == n % denominator
    IN  IF 2 * r < denominator THEN q
        ELSE IF 2 * r > denominator THEN q + 1
        ELSE IF q % 2 = 0 THEN q ELSE q + 1

\* (a slip to test C18 against: the second decimal cut off, not rounded)
RoundPct_Truncated(count, denominator) == (count * 1000) \div denominator

\* round(count / denominator * 100, 1) in tenths, ties to the even tenth
RoundPct(count, denominator) ==
    LET n == count * 1000
        q == n \div denominator
        r == n % denominator
    IN  IF 2 * r < denominator THEN q
        ELSE IF 2 * r > denominator THEN q + 1
        ELSE IF q % 2 = 0 THEN q ELSE q + 1

\* max of a non-empty set of dates
MaxOf(S) == CHOOSE x \in S : \A y \in S : y <= x

(***************************************************************************)
(* What a function does to the DataFrame object its caller passed.  The    *)
(* function's statements on its local name are of two kinds: those that    *)
(* bind the name to a new object (df.copy(), df.sort_values(...),          *)
(* df[mask]) and those that write a column into the object the name is     *)
(* bound to (df[col] = ...).  No statement of the three functions changes  *)
(* rows in place.                                                          *)
(***************************************************************************)
\* the columns of a fetched series
CandleColumns == {"start_time", "open", "high", "low", "close", "volume", "turnover"}
\* the object holding the rows of a fetched series
Frame(rows) == [columns |-> CandleColumns, written |-> {}, rows |-> rows]
\* the columns of the frequency table
TableColumns == {"Hour", "P1pct", "LastP1", "P2pct", "LastP2"}
\* the object held in st.session_state.pivot_data, of whose columns `written`
\* have been overwritten in place since it was stored
StoredTable(rows, written) ==
    [columns |-> TableColumns, written |-> written, rows |-> rows]

\* (a slip to test C20 against: "x = df" written for "x = df.copy()")
BindsNewObject_NoCopy(st) == st.op \in {"sort_values", "getitem"}

BindsNewObject(st) == st.op \in {"copy", "sort_values", "getitem"}

\* the caller's object after the statements stmts, the local name being
\* bound to the caller's object (aliased) or to another one
RECURSIVE RunOn(_, _, _)
RunOn(stmts, frame, aliased) ==
    IF stmts = <<>> THEN frame
    ELSE LET st == Head(stmts)
         IN  IF BindsNewObject(st) THEN RunOn(Tail(stmts), frame, FALSE)
             ELSE IF st.op = "setitem"
             THEN RunOn(Tail(stmts),
                        IF aliased
                        THEN [frame EXCEPT !.columns = @ \cup {st.col},
                                           !.written = @ \cup {st.col}]
                        ELSE frame,
                        aliased)
             ELSE RunOn(Tail(stmts), frame, aliased)

\* the caller's series (None, or its object) after a call that ran stmts
CallerAfter(stmts, df_in) ==
    IF df_in = None THEN None ELSE Some(RunOn(stmts, Frame(Val(df_in)), TRUE))

\* calculate_pivot_analysis, lines 607-612
calculate_statements ==
    <<[op |-> "copy"], [op |-> "sort_values"],
      [op |-> "setitem", col |-> "date"], [op |-> "setitem", col |-> "weekday"],
      [op |-> "getitem"]>>
\* get_todays_pivots, lines 274-284
tracker_statements == <<[op |-> "getitem"], [op |-> "sort_values"]>>
\* render_weekly_analysis, lines 1271-1277 and 1327-1328
weekly_statements ==
    <<[op |-> "copy"],
      [op |-> "setitem", col |-> "date"], [op |-> "setitem", col |-> "weekday"],
      [op |-> "setitem", col |-> "weekday_name"],
      [op |-> "getitem"],
      [op |-> "setitem", col |-> "year"], [op |-> "setitem", col |-> "week"]>>
\* (a slip to test C21 against: the table formatted where it is stored)
render_statements_InPlace ==
    <<[op |-> "setitem", col |-> "P1pct"], [op |-> "setitem", col |-> "P2pct"],
      [op |-> "setitem", col |-> "LastP1"], [op |-> "setitem", col |-> "LastP2"]>>
\* render_pivot_analysis on the stored table: numeric_df = pivot_table.copy(),
\* display_df = numeric_df.copy(), then the four display columns (866-892)
render_statements ==
    <<[op |-> "copy"], [op |-> "copy"],
      [op |-> "setitem", col |-> "P1pct"], [op |-> "setitem", col |-> "P2pct"],
      [op |-> "setitem", col |-> "LastP1"], [op |-> "setitem", col |-> "LastP2"]>>

(***************************************************************************)
(* build_empty_pivot_table                                                 *)
(***************************************************************************)
\* (a slip to test C6 against: hours counted from 1)
build_empty_pivot_table_From1 ==
    [i \in 1..24 |->
        [Hour |-> HourLabel(i), P1pct |-> 0, LastP1 |-> None,
         P2pct |-> 0, LastP2 |-> None]]

build_empty_pivot_table ==
    [i \in 1..24 |->
        [Hour |-> HourLabel(i - 1), P1pct |-> 0, LastP1 |-> None,
         P2pct |-> 0, LastP2 |-> None]]

(***************************************************************************)
(* calculate_pivot_analysis                                                *)
(***************************************************************************)
\* (a slip to test C14 against: the high taken as P1 when both extremes lie
\* on one candle)
DayPivotLocals_HighOnTie(date_val, group) ==
    LET day_data == SortValues(group)
        high_time == day_data[IdxMaxHigh(day_data)].start_time
        low_time == day_data[IdxMinLow(day_data)].start_time
    IN  IF high_time <= low_time
        THEN [date |-> date_val, high_time |-> high_time, low_time |-> low_time,
              p1 |-> "high", p1_hour |-> DtHour(high_time), p2_hour |-> DtHour(low_time)]
        ELSE [date |-> date_val, high_time |-> high_time, low_time |-> low_time,
              p1 |-> "low", p1_hour |-> DtHour(low_time), p2_hour |-> DtHour(high_time)]

\* (a slip to test C13 against: the comparison of the two times turned round)
DayPivotLocals_Swapped(date_val, group) ==
    LET day_data == SortValues(group)
        high_time == day_data[IdxMaxHigh(day_data)].start_time
        low_time == day_data[IdxMinLow(day_data)].start_time
    IN  IF high_time > low_time
        THEN [date |-> date_val, high_time |-> high_time, low_time |-> low_time,
              p1 |-> "high", p1_hour |-> DtHour(high_time), p2_hour |-> DtHour(low_time)]
        ELSE [date |-> date_val, high_time |-> high_time, low_time |-> low_time,
              p1 |-> "low", p1_hour |-> DtHour(low_time), p2_hour |-> DtHour(high_time)]

\* one iteration of the loop over df.groupby('date'): its locals, p1 naming
\* the branch of "if high_time < low_time" that was taken
DayPivotLocals(date_val, group) ==
    LET day_data == SortValues(group)
        high_time == day_data[IdxMaxHigh(day_data)].start_time
        low_time == day_data[IdxMinLow(day_data)].start_time
    IN  IF high_time < low_time
        THEN [date |-> date_val, high_time |-> high_time, low_time |-> low_time,
              p1 |-> "high", p1_hour |-> DtHour(high_time), p2_hour |-> DtHour(low_time)]
        ELSE [date |-> date_val, high_time |-> high_time, low_time |-> low_time,
              p1 |-> "low", p1_hour |-> DtHour(low_time), p2_hour |-> DtHour(high_time)]

\* the row appended to pivot_rows by that iteration
DayPivotRow(date_val, group) ==
    LET l == DayPivotLocals(date_val, group)
    IN  [date |-> l.date, p1_hour |-> l.p1_hour, p2_hour |-> l.p2_hour]

\* the loop over df.groupby('date'): groups come in ascending date order
PivotRows(df) ==
    LET dates == SetToSeq({DtDate(df[i].start_time) : i \in DOMAIN df})
    IN  [k \in 1..Len(dates) |->
            DayPivotRow(dates[k],
                SelectSeq(df, LAMBDA c : DtDate(c.start_time) = dates[k]))]

\* the locals of every iteration of that loop, in the same order
PivotLocals(df) ==
    LET dates == SetToSeq({DtDate(df[i].start_time) : i \in DOMAIN df})
    IN  [k \in 1..Len(dates) |->
            DayPivotLocals(dates[k],
                SelectSeq(df, LAMBDA c : DtDate(c.start_time) = dates[k]))]

\* (a slip to test C2 against: the in-progress day is not set apart)
CompletedDf_KeepCurrent(pivot_df, current_date) == pivot_df

\* (a slip to test C3 against: no fallback when no day is completed)
CompletedDf_NoFallback(pivot_df, current_date) ==
    SelectSeq(pivot_df, LAMBDA r : r.date # current_date)

\* the rows kept for the percentages and their number
CompletedDf(pivot_df, current_date) ==
    LET has_current_day == \E i \in DOMAIN pivot_df : pivot_df[i].date = current_date
        completed_df == IF has_current_day
                        THEN SelectSeq(pivot_df, LAMBDA r : r.date # current_date)
                        ELSE pivot_df
    IN  IF Len(completed_df) = 0 THEN pivot_df ELSE completed_df

\* (a slip to test C5 against: the oldest occurrence instead of the latest)
LastSeen_Oldest(pivot_df, col, hour, today) ==
    LET dates == {pivot_df[i].date : i \in {i \in DOMAIN pivot_df : pivot_df[i][col] = hour}}
    IN  IF dates # {} THEN Some(today - (CHOOSE x \in dates : \A y \in dates : x <= y))
        ELSE None

\* (today - dates.max()).days if len(dates) > 0 else None
LastSeen(pivot_df, col, hour, today) ==
    LET dates == {pivot_df[i].date : i \in {i \in DOMAIN pivot_df : pivot_df[i][col] = hour}}
    IN  IF dates # {} THEN Some(today - MaxOf(dates)) ELSE None

\* (a slip to test C7 against: the denominator fallback 1 returned as the count)
EmptyAnalysis_DenominatorAsCount(df_in) ==
    [df_in |-> df_in, result_df |-> build_empty_pivot_table, completed_days |-> 1,
     caller_df |-> CallerAfter(IF df_in = None \/ Val(df_in) = <<>> THEN <<>>
                               ELSE calculate_statements, df_in),
     pivot_df |-> <<>>, pivot_locals |-> <<>>, completed_df |-> <<>>,
     p1_counts |-> [h \in 0..23 |-> 0], p2_counts |-> [h \in 0..23 |-> 0]]

\* the locals of a call that returns at one of the three early exits
EmptyAnalysis(df_in) ==
    [df_in |-> df_in, result_df |-> build_empty_pivot_table, completed_days |-> 0,
     caller_df |-> CallerAfter(IF df_in = None \/ Val(df_in) = <<>> THEN <<>>
                               ELSE calculate_statements, df_in),
     pivot_df |-> <<>>, pivot_locals |-> <<>>, completed_df |-> <<>>,
     p1_counts |-> [h \in 0..23 |-> 0], p2_counts |-> [h \in 0..23 |-> 0]]

calculate_pivot_analysis(df_in, selected_weekdays, current_date, today) ==
    IF df_in = None \/ Val(df_in) = <<>> THEN EmptyAnalysis(df_in)
    ELSE
    LET df == FilterWeekdays(SortValues(Val(df_in)), selected_weekdays)
    IN  IF df = <<>> THEN EmptyAnalysis(df_in)
        ELSE
        LET pivot_df == PivotRows(df)
        IN  IF pivot_df = <<>> THEN EmptyAnalysis(df_in)
            ELSE
        LET completed_df == CompletedDf(pivot_df, current_date)
            completed_days == Len(completed_df)
            p1_counts == [h \in 0..23 |-> ValueCount(completed_df, "p1_hour", h)]
            p2_counts == [h \in 0..23 |-> ValueCount(completed_df, "p2_hour", h)]
            denominator == IF completed_days > 0 THEN completed_days ELSE 1
        IN  [df_in |-> df_in,
             caller_df |-> CallerAfter(calculate_statements, df_in),
             result_df |->
                [i \in 1..24 |->
                    [Hour |-> HourLabel(i - 1),
                     P1pct |-> RoundPct(p1_counts[i - 1], denominator),
                     LastP1 |-> LastSeen(pivot_df, "p1_hour", i - 1, today),
                     P2pct |-> RoundPct(p2_counts[i - 1], denominator),
                     LastP2 |-> LastSeen(pivot_df, "p2_hour", i - 1, today)]],
             completed_days |-> completed_days,
             pivot_df |-> pivot_df, pivot_locals |-> PivotLocals(df),
             completed_df |-> completed_df,
             p1_counts |-> p1_counts, p2_counts |-> p2_counts]

(***************************************************************************)
(* fetch_bybit_data, as seen by its callers: the candles of the history    *)
(* whose start_time lies in [start_time, end_time], or None when there is  *)
(* none.                                                                   *)
(***************************************************************************)
fetch_bybit_data(history, start_time, end_time) ==
    LET df == SelectSeq(history,
                  LAMBDA c : c.start_time >= start_time /\ c.start_time <= end_time)
    IN  IF df = <<>> THEN None ELSE Some(df)

\* the instant of `now` in quarter-hours
NowTime == now.date * 96 + now.hour * 4

(***************************************************************************)
(* Initial states.                                                         *)
(***************************************************************************)
\* the weekday selections explored (the sidebar never yields an empty one)
WeekdayChoices == {AllWeekdays, {0}, AllWeekdays \ {0}}

\* host date minus UTC date
TzDayOffsets == {-1, 0, 1}

\* the filter and the host's time zone are varied one at a time
Settings ==
    {[weekdays |-> w, off |-> 0] : w \in WeekdayChoices} \cup
    {[weekdays |-> AllWeekdays, off |-> o] : o \in TzDayOffsets}

\* the evaluation instants explored: 04:00 and 09:00 of the last day of the
\* 15-minute grid, 10:00 of the Monday and the Thursday of the last week of
\* the D grid
Clocks15 == {[date |-> MaxDay, hour |-> 4], [date |-> MaxDay, hour |-> 9]}
ClocksD == {[date |-> MaxWeek * 7, hour |-> 10],
            [date |-> MaxWeek * 7 + 3, hour |-> 10]}

NoFuture(history, clock) ==
    \A i \in DOMAIN history : history[i].start_time <= clock.date * 96 + clock.hour * 4

Init ==
    /\ \/ /\ now \in Clocks15
          /\ \E h \in Histories(Grid15) :
                /\ NoFuture(h, now)
                /\ market = [m15 |-> h, d |-> <<>>]
       \/ /\ now \in ClocksD
          /\ \E h \in Histories(GridD) :
                /\ h # <<>>
                /\ NoFuture(h, now)
                /\ market = [m15 |-> <<>>, d |-> h]
    /\ \E st \in Settings :
          /\ selected_weekdays_numeric = st.weekdays
          /\ local_today = now.date + st.off
    /\ pivot_data = None
    /\ pivot_stats = [days_analyzed |-> 0]
    /\ analysis = None
    /\ view = None
    /\ pivot_data_written = {}
    /\ ServicesIdle

(***************************************************************************)
(* The Analyze button: fetch the 15-minute history and analyse it.         *)
(***************************************************************************)
AnalyzeButton ==
    LET df == fetch_bybit_data(market.m15, 0, NowTime)
    IN  /\ IF df = None \/ Val(df) = <<>>
           THEN /\ pivot_data' = Some(build_empty_pivot_table)
                /\ pivot_stats' = [days_analyzed |-> 0]
                /\ analysis' = None
           ELSE LET r == calculate_pivot_analysis(df, selected_weekdays_numeric,
                                                  now.date, local_today)
                IN  /\ pivot_data' = Some(r.result_df)
                    /\ pivot_stats' = [days_analyzed |-> r.completed_days]
                    /\ analysis' = Some(r)
        /\ view' = None
        /\ pivot_data_written' = {}
        /\ UNCHANGED <<market, selected_weekdays_numeric, now, local_today>>
        /\ UNCHANGED serviceVars

(***************************************************************************)
(* get_todays_pivots                                                       *)
(***************************************************************************)
NoPivots == [p1_hour |-> None, p2_hour |-> None, p1_time |-> None, p2_time |-> None]

\* (a slip to test C27 against: the comparison of line 293 turned around)
get_todays_pivots_LaterFirst(kline_data, current_utc_time) ==
    IF kline_data = None \/ Val(kline_data) = <<>> THEN NoPivots
    ELSE
    LET today_start == current_utc_time.date * 96
        today_end == today_start + 96
        todays_data == SortValues(SelectSeq(Val(kline_data),
                           LAMBDA c : c.start_time >= today_start /\ c.start_time < today_end))
    IN  IF todays_data = <<>> THEN NoPivots
        ELSE
        LET high_time == todays_data[IdxMaxHigh(todays_data)].start_time
            low_time == todays_data[IdxMinLow(todays_data)].start_time
        IN  IF high_time > low_time
            THEN [p1_hour |-> Some(DtHour(high_time)), p2_hour |-> Some(DtHour(low_time)),
                  p1_time |-> Some(high_time), p2_time |-> Some(low_time)]
            ELSE [p1_hour |-> Some(DtHour(low_time)), p2_hour |-> Some(DtHour(high_time)),
                  p1_time |-> Some(low_time), p2_time |-> Some(high_time)]

\* (a slip to test C11 against: the day's high always reported as P1)
get_todays_pivots_HighFirst(kline_data, current_utc_time) ==
    IF kline_data = None \/ Val(kline_data) = <<>> THEN NoPivots
    ELSE
    LET today_start == current_utc_time.date * 96
        today_end == today_start + 96
        todays_data == SortValues(SelectSeq(Val(kline_data),
                           LAMBDA c : c.start_time >= today_start /\ c.start_time < today_end))
    IN  IF todays_data = <<>> THEN NoPivots
        ELSE
        LET high_time == todays_data[IdxMaxHigh(todays_data)].start_time
            low_time == todays_data[IdxMinLow(todays_data)].start_time
        IN  [p1_hour |-> Some(DtHour(high_time)), p2_hour |-> Some(DtHour(low_time)),
             p1_time |-> Some(high_time), p2_time |-> Some(low_time)]

\* (a slip to test C12 against: the series not cut to the current day)
get_todays_pivots_NoDayFilter(kline_data, current_utc_time) ==
    IF kline_data = None \/ Val(kline_data) = <<>> THEN NoPivots
    ELSE
    LET todays_data == SortValues(Val(kline_data))
        high_time == todays_data[IdxMaxHigh(todays_data)].start_time
        low_time == todays_data[IdxMinLow(todays_data)].start_time
    IN  IF high_time < low_time
        THEN [p1_hour |-> Some(DtHour(high_time)), p2_hour |-> Some(DtHour(low_time)),
              p1_time |-> Some(high_time), p2_time |-> Some(low_time)]
        ELSE [p1_hour |-> Some(DtHour(low_time)), p2_hour |-> Some(DtHour(high_time)),
              p1_time |-> Some(low_time), p2_time |-> Some(high_time)]

get_todays_pivots(kline_data, current_utc_time) ==
    IF kline_data = None \/ Val(kline_data) = <<>> THEN NoPivots
    ELSE
    LET today_start == current_utc_time.date * 96
        today_end == today_start + 96
        todays_data == SortValues(SelectSeq(Val(kline_data),
                           LAMBDA c : c.start_time >= today_start /\ c.start_time < today_end))
    IN  IF todays_data = <<>> THEN NoPivots
        ELSE
        LET high_time == todays_data[IdxMaxHigh(todays_data)].start_time
            low_time == todays_data[IdxMinLow(todays_data)].start_time
        IN  IF high_time < low_time
            THEN [p1_hour |-> Some(DtHour(high_time)), p2_hour |-> Some(DtHour(low_time)),
                  p1_time |-> Some(high_time), p2_time |-> Some(low_time)]
            ELSE [p1_hour |-> Some(DtHour(low_time)), p2_hour |-> Some(DtHour(high_time)),
                  p1_time |-> Some(low_time), p2_time |-> Some(high_time)]

(***************************************************************************)
(* Risk values and their classification.  A risk value is the rational     *)
(* num / den percent: the daily sums of one-decimal percentages have       *)
(* den = 10, the weekly sums of count / total_weeks * 100 have             *)
(* den = total_weeks.                                                      *)
(***************************************************************************)
RECURSIVE SumSeq(_)
SumSeq(s) == IF s = <<>> THEN 0 ELSE Head(s) + SumSeq(Tail(s))

\* numeric_df[mask][col].sum()
ColSum(rows, col) == SumSeq([i \in DOMAIN rows |-> rows[i][col]])

\* (a slip to test C10 against: the thresholds taken inclusive)
P1FlipRisk_Inclusive(v) ==
    IF v.num <= 20 * v.den THEN "Low"
    ELSE IF v.num <= 50 * v.den THEN "Moderate"
    ELSE "High"

\* if v < 20: st.success(Low)  elif v < 50: st.warning(Moderate)  else: st.error(High)
P1FlipRisk(v) ==
    IF v.num < 20 * v.den THEN "Low"
    ELSE IF v.num < 50 * v.den THEN "Moderate"
    ELSE "High"

\* if v < 20: st.success(Likely)  elif v < 50: st.warning(Moderate)  else: st.error(Unlikely)
P2Formation(v) ==
    IF v.num < 20 * v.den THEN "Likely"
    ELSE IF v.num < 50 * v.den THEN "Moderate"
    ELSE "Unlikely"

(***************************************************************************)
(* render_pivot_analysis("daily", ...)                                     *)
(***************************************************************************)
render_pivot_analysis(pivot_table, history, current_utc_time) ==
    LET today_start == current_utc_time.date * 96
        today_end == current_utc_time.date * 96 + current_utc_time.hour * 4
        timeframe_klines == fetch_bybit_data(history, today_start, today_end)
        piv == IF timeframe_klines # None /\ Val(timeframe_klines) # <<>>
               THEN get_todays_pivots(timeframe_klines, current_utc_time)
               ELSE NoPivots
        klines_after == CallerAfter(
                            IF timeframe_klines # None /\ Val(timeframe_klines) # <<>>
                            THEN tracker_statements ELSE <<>>, timeframe_klines)
        numeric_df == pivot_table
        waiting == [tab |-> "daily", current_p1_hour |-> piv.p1_hour,
                    current_p2_hour |-> piv.p2_hour,
                    p1_exact_time |-> piv.p1_time, p2_exact_time |-> piv.p2_time,
                    timeframe_klines |-> timeframe_klines,
                    timeframe_klines_after |-> klines_after,
                    insights |-> FALSE]
    IN  IF piv.p1_hour = None \/ piv.p2_hour = None THEN waiting
        ELSE
        LET p1_time == HourLabel(Val(piv.p1_hour))
            p2_time == HourLabel(Val(piv.p2_hour))
            now_label == HourLabel(current_utc_time.hour)
            has_p1_row == \E i \in DOMAIN numeric_df : numeric_df[i].Hour = p1_time
            has_p2_row == \E i \in DOMAIN numeric_df : numeric_df[i].Hour = p2_time
            after_p1 == SelectSeq(numeric_df, LAMBDA r : StrLess(p1_time, r.Hour))
            at_or_after_p2 == SelectSeq(numeric_df, LAMBDA r : ~StrLess(r.Hour, p2_time))
            after_p2 == SelectSeq(numeric_df, LAMBDA r : StrLess(p2_time, r.Hour))
            after_current_time == SelectSeq(numeric_df, LAMBDA r : StrLess(now_label, r.Hour))
            p1_after_p1_total == IF has_p1_row THEN ColSum(after_p1, "P1pct") ELSE 0
            p1_at_or_after_p2 == IF has_p1_row THEN ColSum(at_or_after_p2, "P1pct") ELSE 0
            p1_after_current == IF has_p1_row THEN ColSum(after_current_time, "P1pct") ELSE 0
            p2_after_p2_total == IF has_p2_row THEN ColSum(after_p2, "P2pct") ELSE 0
            p2_after_current == IF has_p2_row THEN ColSum(after_current_time, "P2pct") ELSE 0
        IN  [tab |-> "daily", current_p1_hour |-> piv.p1_hour,
             current_p2_hour |-> piv.p2_hour,
             p1_exact_time |-> piv.p1_time, p2_exact_time |-> piv.p2_time,
             timeframe_klines |-> timeframe_klines,
             timeframe_klines_after |-> klines_after,
             insights |-> TRUE,
             current_slot |-> current_utc_time.hour,
             p1_after_p1_total |-> [num |-> p1_after_p1_total, den |-> 10],
             p1_after_current |-> [num |-> p1_after_current, den |-> 10],
             p2_after_p2_total |-> [num |-> p2_after_p2_total, den |-> 10],
             p1_flip_value |-> [num |-> p1_at_or_after_p2, den |-> 10],
             p2_formation_value |-> [num |-> p2_after_current, den |-> 10],
             p1_flip_risk |-> P1FlipRisk([num |-> p1_at_or_after_p2, den |-> 10]),
             p2_formation |-> P2Formation([num |-> p2_after_current, den |-> 10])]

RenderDaily ==
    /\ pivot_data # None
    /\ view' = Some(render_pivot_analysis(Val(pivot_data), market.m15, now))
    /\ pivot_data_written' =
           RunOn(render_statements, StoredTable(Val(pivot_data), pivot_data_written),
                 TRUE).written
    /\ UNCHANGED <<market, selected_weekdays_numeric, now, local_today,
                   pivot_data, pivot_stats, analysis>>
    /\ UNCHANGED serviceVars

(***************************************************************************)
(* render_weekly_analysis                                                  *)
(***************************************************************************)
\* one iteration of the loop over groupby(['year', 'week']): p1_time, p2_time
WeekPivot(week_group) ==
    LET high_time == week_group[IdxMaxHigh(week_group)].start_time
        low_time == week_group[IdxMinLow(week_group)].start_time
    IN  IF high_time < low_time
        THEN [p1_time |-> high_time, p2_time |-> low_time]
        ELSE [p1_time |-> low_time, p2_time |-> high_time]

\* the loop over the weeks, in ascending (year, week) order, from the k-th on
RECURSIVE WeeklyTally(_, _, _, _, _)
WeeklyTally(df, weeks, k, today, acc) ==
    IF k > Len(weeks) THEN acc
    ELSE
    LET week_group == SelectSeq(df, LAMBDA c : IsoWeek(c.start_time) = weeks[k])
        piv == WeekPivot(week_group)
        p1_weekday_name == weekday_names[DtDayOfWeek(piv.p1_time) + 1]
        p2_weekday_name == weekday_names[DtDayOfWeek(piv.p2_time) + 1]
    IN  WeeklyTally(df, weeks, k + 1, today,
            [total_weeks |-> acc.total_weeks + 1,
             p1_counts |-> [acc.p1_counts EXCEPT ![p1_weekday_name] = @ + 1],
             p2_counts |-> [acc.p2_counts EXCEPT ![p2_weekday_name] = @ + 1],
             p1_last |-> [acc.p1_last EXCEPT
                             ![p1_weekday_name] = Some(today - DtDate(piv.p1_time))],
             p2_last |-> [acc.p2_last EXCEPT
                             ![p2_weekday_name] = Some(today - DtDate(piv.p2_time))]])

WeekdayNameSet == {weekday_names[i] : i \in DOMAIN weekday_names}

\* sum of counts[weekday_names[i]] / total_weeks * 100 for i in range(first, 7)
WeekdayTail(counts, first, total_weeks) ==
    IF total_weeks > 0
    THEN [num |-> 100 * SumSeq([i \in 1..(7 - first) |-> counts[weekday_names[first + i]]]),
          den |-> total_weeks]
    ELSE [num |-> 0, den |-> 1]

render_weekly_analysis(history, selected_weekdays, current_utc_time, today) ==
    LET current_weekday == current_utc_time.date % 7
        end_time == current_utc_time.date * 96 + current_utc_time.hour * 4
        weekly_klines == fetch_bybit_data(history, end_time - 365 * 96, end_time)
    IN  IF weekly_klines = None \/ Val(weekly_klines) = <<>>
        THEN [tab |-> "weekly", info |-> "No data available for Weekly timeframe"]
        ELSE
        LET weekly_klines_copy == FilterWeekdays(Val(weekly_klines), selected_weekdays)
        IN  IF weekly_klines_copy = <<>>
            THEN [tab |-> "weekly", info |-> "No data available for selected weekdays",
                  weekly_klines |-> weekly_klines,
                  weekly_klines_after |->
                      CallerAfter(SubSeq(weekly_statements, 1, 5), weekly_klines)]
            ELSE
            LET week_start == (current_utc_time.date - current_weekday) * 96
                week_end == week_start + 7 * 96
                this_week_data == SelectSeq(weekly_klines_copy,
                    LAMBDA c : c.start_time >= week_start /\ c.start_time < week_end)
                this_week == IF this_week_data = <<>> THEN None
                             ELSE Some(WeekPivot(this_week_data))
                current_p1_weekday == IF this_week = None THEN None
                                      ELSE Some(DtDayOfWeek(Val(this_week).p1_time))
                current_p2_weekday == IF this_week = None THEN None
                                      ELSE Some(DtDayOfWeek(Val(this_week).p2_time))
                weeks == SetToSeq({IsoWeek(weekly_klines_copy[i].start_time) :
                                      i \in DOMAIN weekly_klines_copy})
                t == WeeklyTally(weekly_klines_copy, weeks, 1, today,
                        [total_weeks |-> 0,
                         p1_counts |-> [d \in WeekdayNameSet |-> 0],
                         p2_counts |-> [d \in WeekdayNameSet |-> 0],
                         p1_last |-> [d \in WeekdayNameSet |-> None],
                         p2_last |-> [d \in WeekdayNameSet |-> None]])
                weekly_df ==
                    [i \in DOMAIN weekday_names |->
                        [Weekday |-> weekday_names[i],
                         P1pct |-> IF t.total_weeks > 0
                                   THEN RoundPct(t.p1_counts[weekday_names[i]], t.total_weeks)
                                   ELSE 0,
                         LastP1 |-> IF t.p1_last[weekday_names[i]] # None
                                    THEN [days |-> Val(t.p1_last[weekday_names[i]])]
                                    ELSE [str |-> ""],
                         P2pct |-> IF t.total_weeks > 0
                                   THEN RoundPct(t.p2_counts[weekday_names[i]], t.total_weeks)
                                   ELSE 0,
                         LastP2 |-> IF t.p2_last[weekday_names[i]] # None
                                    THEN [days |-> Val(t.p2_last[weekday_names[i]])]
                                    ELSE [str |-> ""]]]
                table == [tab |-> "weekly", info |-> "", weekly_df |-> weekly_df,
                          weekly_klines |-> weekly_klines,
                          weekly_klines_after |->
                              CallerAfter(weekly_statements, weekly_klines),
                          weekly_klines_copy |-> weekly_klines_copy,
                          total_weeks |-> t.total_weeks,
                          p1_counts |-> t.p1_counts, p2_counts |-> t.p2_counts,
                          p1_last |-> t.p1_last, p2_last |-> t.p2_last,
                          current_p1_weekday |-> current_p1_weekday,
                          current_p2_weekday |-> current_p2_weekday]
            IN  IF current_p1_weekday = None \/ current_p2_weekday = None
                THEN table @@ [insights |-> FALSE]
                ELSE
                LET p1_after_current == WeekdayTail(t.p1_counts, current_weekday + 1, t.total_weeks)
                    p2_after_current == WeekdayTail(t.p2_counts, current_weekday + 1, t.total_weeks)
                IN  table @@
                    [insights |-> TRUE,
                     current_slot |-> current_weekday,
                     p1_after_p1_total |-> WeekdayTail(t.p1_counts,
                                               Val(current_p1_weekday) + 1, t.total_weeks),
                     p1_after_current |-> p1_after_current,
                     p2_after_p2_total |-> WeekdayTail(t.p2_counts,
                                               Val(current_p2_weekday) + 1, t.total_weeks),
                     p1_flip_value |-> p1_after_current,
                     p2_formation_value |-> p2_after_current,
                     p1_flip_risk |-> P1FlipRisk(p1_after_current),
                     p2_formation |-> P2Formation(p2_after_current)]

RenderWeekly ==
    /\ pivot_data # None
    /\ view' = Some(render_weekly_analysis(market.d, selected_weekdays_numeric,
                                           now, local_today))
    /\ UNCHANGED <<market, selected_weekdays_numeric, now, local_today,
                   pivot_data, pivot_stats, analysis, pivot_data_written>>
    /\ UNCHANGED serviceVars

(***************************************************************************)
(* A direct call of calculate_pivot_analysis on a missing or an empty      *)
(* series, which the Analyze handler never passes on (it shows the empty   *)
(* table itself).                                                          *)
(***************************************************************************)
CalculateDirect ==
    /\ pivot_data = None
    /\ analysis = None
    /\ fetch_bybit_data(market.m15, 0, NowTime) = None
    /\ \E df \in {None, Some(<<>>)} :
          analysis' = Some(calculate_pivot_analysis(df, selected_weekdays_numeric,
                                                    now.date, local_today))
    /\ UNCHANGED <<market, selected_weekdays_numeric, now, local_today,
                   pivot_data, pivot_stats, view, pivot_data_written>>
    /\ UNCHANGED serviceVars

Next == AnalyzeButton \/ RenderDaily \/ RenderWeekly \/ CalculateDirect

Spec == Init /\ [][Next]_vars

(***************************************************************************)
(* Long histories for the percentages: one candle a day over several days  *)
(* in one of three hours (or one candle a week on one of three weekdays),  *)
(* all of one price, analysed after the last of them is complete, so that  *)
(* the denominators 3 and more and their rounded thirds occur.             *)
(***************************************************************************)
TallyQuarters == {13, 36, 60}
TallyWeekdays == {0, 3, 5}
\* the series with a candle of price (1, 1) at each instant of T
FlatSeries(T) == MkSeries([t \in T |-> <<1, 1>>])
TallyHistories ==
    UNION {{FlatSeries({d * 96 + f[d] : d \in D}) : f \in [D -> TallyQuarters]} :
              D \in SUBSET (0..MaxTallyDay)}
TallyWeekHistories ==
    UNION {{FlatSeries({(w * 7 + f[w]) * 96 : w \in W}) : f \in [W -> TallyWeekdays]} :
              W \in SUBSET (0..MaxTallyDay)}

InitTally ==
    /\ \/ /\ now = [date |-> MaxTallyDay + 1, hour |-> 4]
          /\ \E h \in TallyHistories : market = [m15 |-> h, d |-> <<>>]
       \/ /\ now = [date |-> MaxTallyDay * 7 + 6, hour |-> 10]
          /\ \E h \in TallyWeekHistories \ {<<>>} : market = [m15 |-> <<>>, d |-> h]
    /\ selected_weekdays_numeric = AllWeekdays
    /\ local_today = now.date
    /\ pivot_data = None
    /\ pivot_stats = [days_analyzed |-> 0]
    /\ analysis = None
    /\ view = None
    /\ pivot_data_written = {}
    /\ ServicesIdle

SpecTally == InitTally /\ [][Next]_vars

(***************************************************************************)
(* The in-progress day: the page is open while the exchange closes one     *)
(* 15-minute candle after the other, and the tracker is evaluated again    *)
(* and again on the day's growing series.                                  *)
(***************************************************************************)
\* the hours of the live day at whose start a candle may appear
LiveHours == 2..4
\* (high, low) of a live candle: three levels, so that a later candle can
\* exceed an earlier one on both sides
LivePrices == {pr \in (1..3) \X (1..3) : pr[1] >= pr[2]}
\* the history before the live day: nothing, or one candle of the day before
\* that is higher and lower than any live candle can be
Yesterday ==
    {<<>>, <<[start_time |-> (MaxDay - 1) * 96 + 36, high |-> 4, low |-> 0]>>}

InitLive ==
    /\ now = [date |-> MaxDay, hour |-> 1]
    /\ \E h \in Yesterday : market = [m15 |-> h, d |-> <<>>]
    /\ selected_weekdays_numeric = AllWeekdays
    /\ local_today = now.date
    /\ pivot_data = None
    /\ pivot_stats = [days_analyzed |-> 0]
    /\ analysis = None
    /\ view = None
    /\ pivot_data_written = {}
    /\ ServicesIdle

\* an hour passes; the exchange has a new candle at its start, or none
CandleCloses ==
    /\ now.hour + 1 \in LiveHours
    /\ now' = [now EXCEPT !.hour = @ + 1]
    /\ \/ market' = market
       \/ \E pr \in LivePrices :
             market' = [market EXCEPT !.m15 =
                 Append(@, [start_time |-> now.date * 96 + (now.hour + 1) * 4,
                            high |-> pr[1], low |-> pr[2]])]
    /\ UNCHANGED <<selected_weekdays_numeric, local_today,
                   pivot_data, pivot_stats, analysis, view, pivot_data_written>>
    /\ UNCHANGED serviceVars

\* a direct call of get_todays_pivots: on no series, on an empty one, or on
\* the whole history, other days included
TrackerCall ==
    /\ \E kline_data \in {None, Some(<<>>), Some(market.m15)} :
          view' = Some([tab |-> "tracker", kline_data |-> kline_data,
                        result |-> get_todays_pivots(kline_data, now)])
    /\ UNCHANGED <<market, selected_weekdays_numeric, now, local_today,
                   pivot_data, pivot_stats, analysis, pivot_data_written>>
    /\ UNCHANGED serviceVars

NextLive == CandleCloses \/ AnalyzeButton \/ RenderDaily \/ TrackerCall

SpecLive == InitLive /\ [][NextLive]_vars

(***************************************************************************)
(* Properties.  The candles of a bucket are described here as sets, apart  *)
(* from the sequences the analysis works on.                               *)
(***************************************************************************)
Range(f) == {f[i] : i \in DOMAIN f}
MinOf(S) == CHOOSE x \in S : \A y \in S : x <= y

\* the earliest start_time among the candles of B with the highest high
HighTimeOf(B) ==
    MinOf({c.start_time : c \in {c \in B : \A e \in B : e.high <= c.high}})
\* the earliest start_time among the candles of B with the lowest low
LowTimeOf(B) ==
    MinOf({c.start_time : c \in {c \in B : \A e \in B : e.low >= c.low}})

\* the last call of calculate_pivot_analysis
Analysed == analysis # None
A == Val(analysis)
\* the candles that call was given and that pass the weekday filter
GivenCandles == IF A.df_in = None THEN {} ELSE Range(Val(A.df_in))
KeptCandles ==
    {c \in GivenCandles : DtDayOfWeek(c.start_time) \in selected_weekdays_numeric}
BucketDates == {DtDate(c.start_time) : c \in KeptCandles}
Bucket(d) == {c \in KeptCandles : DtDate(c.start_time) = d}
RowOf(d) == CHOOSE r \in Range(A.pivot_df) : r.date = d
CompletedDates == BucketDates \ {now.date}
Hours == 0..23

\* C1: every non-empty day bucket has one pivot row; its high_time and
\* low_time are the earliest candle with the maximum high and the earliest
\* with the minimum low; P1 is the high when high_time < low_time and the low
\* otherwise, so p1_hour and p2_hour are the hours of the bucket's high and
\* low, one each.
C1_PivotPairOfBucket ==
    Analysed =>
        /\ {r.date : r \in Range(A.pivot_df)} = BucketDates
        /\ Len(A.pivot_df) = Cardinality(BucketDates)
        /\ \A d \in BucketDates :
              LET ht == HighTimeOf(Bucket(d))
                  lt == LowTimeOf(Bucket(d))
                  r == RowOf(d)
              IN  /\ ht < lt => r.p1_hour = DtHour(ht) /\ r.p2_hour = DtHour(lt)
                  /\ ~(ht < lt) => r.p1_hour = DtHour(lt) /\ r.p2_hour = DtHour(ht)
                  /\ \/ r.p1_hour = DtHour(ht) /\ r.p2_hour = DtHour(lt)
                     \/ r.p1_hour = DtHour(lt) /\ r.p2_hour = DtHour(ht)

\* a bucket whose two candles share the maximum high, the first of them
\* being P1 and the later candle, with the minimum low, P2
C1_Witness ==
    /\ Analysed
    /\ \E d \in BucketDates :
          /\ Cardinality(Bucket(d)) = 2
          /\ \A c \in Bucket(d) : c.high = 2
          /\ HighTimeOf(Bucket(d)) < LowTimeOf(Bucket(d))
          /\ RowOf(d).p1_hour = 3
          /\ RowOf(d).p2_hour = 9

\* C2: when some bucket is dated another day than the current UTC date, the
\* current day's bucket is counted in no slot and the completed-bucket count
\* is the number of buckets of other days.
C2_CurrentDayExcluded ==
    (Analysed /\ CompletedDates # {}) =>
        /\ A.completed_days = Cardinality(CompletedDates)
        /\ pivot_stats.days_analyzed = Cardinality(CompletedDates)
        /\ \A h \in Hours :
              /\ A.p1_counts[h] = Cardinality({d \in CompletedDates : RowOf(d).p1_hour = h})
              /\ A.p2_counts[h] = Cardinality({d \in CompletedDates : RowOf(d).p2_hour = h})
              /\ A.result_df[h + 1].P1pct =
                    RoundPct(Cardinality({d \in CompletedDates : RowOf(d).p1_hour = h}),
                             Cardinality(CompletedDates))
              /\ A.result_df[h + 1].P2pct =
                    RoundPct(Cardinality({d \in CompletedDates : RowOf(d).p2_hour = h}),
                             Cardinality(CompletedDates))

\* a completed day with its pivots at 03:00 and an in-progress day with its
\* pivots at 09:00, which the 09:00 row does not count
C2_Witness ==
    /\ Analysed
    /\ CompletedDates # {}
    /\ now.date \in BucketDates
    /\ RowOf(now.date).p1_hour = 9
    /\ \A d \in CompletedDates : RowOf(d).p1_hour = 3
    /\ A.result_df[10].P1pct = 0
    /\ A.result_df[4].P1pct = 1000

\* C3: when the only bucket is the current UTC day the count falls back to
\* all buckets, which are then all tallied; a bucket of the current day is
\* tallied in no other situation.
C3_FallbackOnlyWithoutCompleted ==
    Analysed =>
        /\ (BucketDates # {} /\ CompletedDates = {}) =>
              /\ A.completed_days = Cardinality(BucketDates)
              /\ pivot_stats.days_analyzed = Cardinality(BucketDates)
              /\ \A h \in Hours :
                    /\ A.p1_counts[h] = Cardinality({d \in BucketDates : RowOf(d).p1_hour = h})
                    /\ A.p2_counts[h] = Cardinality({d \in BucketDates : RowOf(d).p2_hour = h})
        /\ (\E r \in Range(A.completed_df) : r.date = now.date) => CompletedDates = {}
        /\ A.completed_days > Cardinality(CompletedDates) => CompletedDates = {}

\* the series holds the in-progress day only: its pivots are tallied
C3_Witness ==
    /\ Analysed
    /\ BucketDates = {now.date}
    /\ A.completed_days = 1
    /\ A.p1_counts[3] = 1
    /\ A.p2_counts[9] = 1
    /\ A.result_df[4].P1pct = 1000

\* C4: the P1 counts of the 24 slots sum to the completed-bucket count the
\* call returns, and so do the P2 counts.
C4_CountsSumToCompleted ==
    Analysed =>
        /\ SumSeq([i \in 1..24 |-> A.p1_counts[i - 1]]) = A.completed_days
        /\ SumSeq([i \in 1..24 |-> A.p2_counts[i - 1]]) = A.completed_days

\* two completed days tallied in different slots
C4_Witness ==
    /\ Analysed
    /\ A.completed_days = 2
    /\ A.p1_counts[3] = 1
    /\ A.p1_counts[9] = 1

\* the last render of the weekly tab, when it built its table
WeeklyShown == view # None /\ Val(view).tab = "weekly" /\ Val(view).info = ""
V == Val(view)
\* the D candles the weekly tab fetched that pass the weekday filter
KeptWeekly ==
    {c \in Range(market.d) :
        /\ c.start_time <= NowTime
        /\ c.start_time >= NowTime - 365 * 96
        /\ DtDayOfWeek(c.start_time) \in selected_weekdays_numeric}
Weeks == {IsoWeek(c.start_time) : c \in KeptWeekly}
WeekBucket(w) == {c \in KeptWeekly : IsoWeek(c.start_time) = w}
WeekP1Time(w) ==
    IF HighTimeOf(WeekBucket(w)) < LowTimeOf(WeekBucket(w))
    THEN HighTimeOf(WeekBucket(w)) ELSE LowTimeOf(WeekBucket(w))
WeekP2Time(w) ==
    IF HighTimeOf(WeekBucket(w)) < LowTimeOf(WeekBucket(w))
    THEN LowTimeOf(WeekBucket(w)) ELSE HighTimeOf(WeekBucket(w))

\* the number of days from the host's date back to the latest of the dates
\* S, None when there is none
DaysSince(S) == IF S = {} THEN None ELSE Some(local_today - MaxOf(S))

\* a value is None
IsNone(x) == DOMAIN x = {}

ZeroRow(i) ==
    [Hour |-> HourLabel(i - 1), P1pct |-> 0, LastP1 |-> None,
     P2pct |-> 0, LastP2 |-> None]

\* a daily table has one row per hour 00:00..23:00, in ascending order
FullDay(table) ==
    /\ DOMAIN table = 1..24
    /\ \A i \in 1..24 : table[i].Hour = <<(i - 1) \div 10, (i - 1) % 10>>
    /\ \A i \in 1..23 : StrLess(table[i].Hour, table[i + 1].Hour)

C7_EmptyInputsGiveZeroTable ==
    Analysed /\ KeptCandles = {} =>
        /\ DOMAIN A.result_df = 1..24
        /\ \A i \in 1..24 : A.result_df[i] = ZeroRow(i)
        /\ A.completed_days = 0

\* the three cases: a None series, an empty one, one the filter empties
C7_WitnessNone == Analysed /\ A.df_in = None /\ A.completed_days = 0
C7_WitnessEmpty == Analysed /\ A.df_in = Some(<<>>) /\ A.completed_days = 0
C7_Witness ==
    /\ Analysed
    /\ GivenCandles # {}
    /\ KeptCandles = {}
    /\ A.completed_days = 0
    /\ pivot_stats.days_analyzed = 0
    /\ pivot_data = Some([i \in 1..24 |-> ZeroRow(i)])

\* C8: only candles whose UTC weekday is selected reach a bucket.  Daily:
\* there is a pivot row exactly for the dates of the kept candles and its
\* P1 and P2 hours are hours of kept candles of that date; when candles were given and
\* none is kept the table is all zero and the count 0, not the fallback
\* count.  Weekly: the weeks, their number and the P1 / P2 tallies are those
\* of the kept candles alone; when candles were fetched and none is kept no
\* week is counted and the tab shows only a notice.
C8_FilterBeforeBucketing ==
    /\ Analysed =>
          /\ \A i \in DOMAIN A.pivot_df :
                /\ DtDayOfWeek(A.pivot_df[i].date * 96) \in selected_weekdays_numeric
                /\ \E c \in Bucket(A.pivot_df[i].date) :
                      DtHour(c.start_time) = A.pivot_df[i].p1_hour
                /\ \E c \in Bucket(A.pivot_df[i].date) :
                      DtHour(c.start_time) = A.pivot_df[i].p2_hour
          /\ {A.pivot_df[i].date : i \in DOMAIN A.pivot_df} = BucketDates
          /\ Len(A.pivot_df) = Cardinality(BucketDates)
          /\ KeptCandles = {} =>
                /\ A.completed_days = 0
                /\ \A i \in 1..24 : A.result_df[i].P1pct = 0 /\ A.result_df[i].P2pct = 0
    /\ WeeklyShown =>
          /\ Range(V.weekly_klines_copy) = KeptWeekly
          /\ V.total_weeks = Cardinality(Weeks)
          /\ \A k \in AllWeekdays :
                /\ V.p1_counts[weekday_names[k + 1]] =
                      Cardinality({w \in Weeks : DtDayOfWeek(WeekP1Time(w)) = k})
                /\ V.p2_counts[weekday_names[k + 1]] =
                      Cardinality({w \in Weeks : DtDayOfWeek(WeekP2Time(w)) = k})
    /\ (view # None /\ Val(view).tab = "weekly") =>
          (Val(view).info = "No data available for selected weekdays" <=>
              /\ KeptWeekly = {}
              /\ \E c \in Range(market.d) :
                    c.start_time <= NowTime /\ c.start_time >= NowTime - 365 * 96)

\* a week whose highest high is on a weekday the filter leaves out, next to
\* a kept candle of the same week
C8_Witness ==
    /\ WeeklyShown
    /\ \E c \in Range(market.d) :
          /\ c.start_time <= NowTime
          /\ c \notin KeptWeekly
          /\ \E e \in KeptWeekly :
                /\ IsoWeek(e.start_time) = IsoWeek(c.start_time)
                /\ \A f \in WeekBucket(IsoWeek(e.start_time)) : f.high < c.high
                /\ V.p1_counts[weekday_names[DtDayOfWeek(e.start_time) + 1]] >= 1

\* the last render of the daily tab, when it showed the risk values
DailyInsights == view # None /\ Val(view).tab = "daily" /\ Val(view).insights
\* the last render of the weekly tab, when it showed the risk values
WeeklyInsights == WeeklyShown /\ Val(view).insights
\* the table the daily tab reads
T == Val(pivot_data)

\* the sum of f over the finite set S
RECURSIVE SumOver(_, _)
SumOver(f, S) ==
    IF S = {} THEN 0
    ELSE LET x == CHOOSE x \in S : TRUE IN f[x] + SumOver(f, S \ {x})

\* the sum, in tenths of a percent, of a column of the daily table over the
\* hours in S
DailyMass(col, S) == SumOver([h \in Hours |-> T[h + 1][col]], S)
\* the sum, in tenths of a percent, of a column of the weekly table over
\* the weekdays in S
WeeklyMass(col, S) == SumOver([k \in AllWeekdays |-> V.weekly_df[k + 1][col]], S)

\* C9 as first stated: each risk value is the sum of the P1 % (P2 %) column
\* of the table over the slots strictly after its reference slot (daily:
\* the provisional P2 hour for the P1 flip risk, the current UTC hour for
\* the P2 formation; weekly: the current UTC weekday), the reference slot
\* left out.
C9_StrictTailOfColumn ==
    /\ DailyInsights =>
          /\ V.p1_flip_value.num =
                DailyMass("P1pct", {h \in Hours : h > Val(V.current_p2_hour)})
          /\ V.p1_flip_value.den = 10
          /\ V.p2_formation_value.num =
                DailyMass("P2pct", {h \in Hours : h > now.hour})
          /\ V.p2_formation_value.den = 10
    /\ WeeklyInsights =>
          /\ 10 * V.p1_flip_value.num = V.p1_flip_value.den *
                WeeklyMass("P1pct", {k \in AllWeekdays : k > now.date % 7})
          /\ 10 * V.p2_formation_value.num = V.p2_formation_value.den *
                WeeklyMass("P2pct", {k \in AllWeekdays : k > now.date % 7})

\* C9 (amended): no risk value is clamped.  Daily: the P1 flip-risk value
\* is the sum of the P1 % column over the hours at or after the provisional
\* P2 hour, that hour included; the P2 formation value is the sum of the
\* P2 % column over the hours strictly after the current UTC hour.  Weekly:
\* both values are 100 * (number of weeks whose P1, resp. P2, fell on a
\* weekday strictly after the current UTC weekday) / total_weeks, summed
\* from the counts and not from the rounded column.
C9_TailSums ==
    /\ DailyInsights =>
          /\ V.p1_flip_value.num =
                DailyMass("P1pct", {h \in Hours : h >= Val(V.current_p2_hour)})
          /\ V.p1_flip_value.den = 10
          /\ V.p2_formation_value.num =
                DailyMass("P2pct", {h \in Hours : h > now.hour})
          /\ V.p2_formation_value.den = 10
    /\ WeeklyInsights =>
          /\ V.p1_flip_value.num = 100 *
                Cardinality({w \in Weeks : DtDayOfWeek(WeekP1Time(w)) > now.date % 7})
          /\ V.p1_flip_value.den = Cardinality(Weeks)
          /\ V.p2_formation_value.num = 100 *
                Cardinality({w \in Weeks : DtDayOfWeek(WeekP2Time(w)) > now.date % 7})
          /\ V.p2_formation_value.den = Cardinality(Weeks)

\* the table has P1 mass in the row of the provisional P2 hour, which the
\* flip-risk value counts, and P2 mass in the row of the current hour, which
\* the formation value leaves out
C9_Witness ==
    /\ DailyInsights
    /\ T[Val(V.current_p2_hour) + 1].P1pct > 0
    /\ T[now.hour + 1].P2pct > 0
    /\ V.p1_flip_value.num >
          DailyMass("P1pct", {h \in Hours : h > Val(V.current_p2_hour)})
    /\ V.p2_formation_value.num <
          DailyMass("P2pct", {h \in Hours : h >= now.hour})

\* the band of the rational value v percent
BandOf(v) ==
    IF v.num < 20 * v.den THEN 1 ELSE IF v.num < 50 * v.den THEN 2 ELSE 3

\* the values, in tenths of a percent, the classification is tried on: the
\* tenths around both thresholds, and the ends of the range
TenthsTried == {0, 1000, 1200} \cup (190..210) \cup (490..510)

\* C10: every risk value gets exactly one band from the fixed thresholds:
\* below 20 Low (P1 flip risk) / Likely (P2 formation), from 20 up to but not
\* including 50 Moderate, 50 or more High / Unlikely; 20 is Moderate and 50
\* is High / Unlikely.
C10_RiskBands ==
    /\ \A n \in TenthsTried :
          LET v == [num |-> n, den |-> 10]
          IN  /\ P1FlipRisk(v) = "Low" <=> n < 200
              /\ P1FlipRisk(v) = "Moderate" <=> (n >= 200 /\ n < 500)
              /\ P1FlipRisk(v) = "High" <=> n >= 500
              /\ P2Formation(v) = "Likely" <=> n < 200
              /\ P2Formation(v) = "Moderate" <=> (n >= 200 /\ n < 500)
              /\ P2Formation(v) = "Unlikely" <=> n >= 500
    /\ (DailyInsights \/ WeeklyInsights) =>
          /\ V.p1_flip_risk = <<"Low", "Moderate", "High">>[BandOf(V.p1_flip_value)]
          /\ V.p2_formation = <<"Likely", "Moderate", "Unlikely">>[BandOf(V.p2_formation_value)]

\* a P1 flip-risk value of exactly 50 percent, classed High
C10_Witness ==
    /\ DailyInsights
    /\ V.p1_flip_value.num = 50 * V.p1_flip_value.den
    /\ V.p1_flip_risk = "High"
    /\ V.p2_formation = "Likely"

\* the last render of the daily tab
DailyShown == view # None /\ Val(view).tab = "daily"

\* C11: with all weekdays selected, the pair get_todays_pivots reports for
\* the current UTC day is the (p1_hour, p2_hour) pair calculate_pivot_analysis
\* derives for that day's bucket from the same candles, and there is no pair
\* exactly when there is no such bucket; when that bucket is the only one,
\* the row of the reported P1 hour is the one row with P1 % 100.0.
C11_TrackerAgreesWithBucket ==
    (Analysed /\ DailyShown /\ selected_weekdays_numeric = AllWeekdays) =>
        /\ IF now.date \in BucketDates
           THEN /\ V.current_p1_hour = Some(RowOf(now.date).p1_hour)
                /\ V.current_p2_hour = Some(RowOf(now.date).p2_hour)
           ELSE V.current_p1_hour = None /\ V.current_p2_hour = None
        /\ BucketDates = {now.date} =>
              \A h \in Hours :
                  /\ T[h + 1].P1pct = IF Some(h) = V.current_p1_hour THEN 1000 ELSE 0
                  /\ T[h + 1].P2pct = IF Some(h) = V.current_p2_hour THEN 1000 ELSE 0

\* the in-progress day alone, its low at 03:15 and its high at 09:00: the
\* tracker reports 3 and 9 and the 03:00 row shows 100.0 under the fallback
C11_Witness ==
    /\ Analysed
    /\ DailyShown
    /\ selected_weekdays_numeric = AllWeekdays
    /\ BucketDates = {now.date}
    /\ Cardinality(Bucket(now.date)) = 2
    /\ LowTimeOf(Bucket(now.date)) < HighTimeOf(Bucket(now.date))
    /\ V.current_p1_hour = Some(3)
    /\ V.current_p2_hour = Some(9)
    /\ T[4].P1pct = 1000
    /\ A.completed_days = 1

\* the last direct call of get_todays_pivots
TrackerShown == view # None /\ Val(view).tab = "tracker"
\* the candles of the series k that lie in the UTC day of the clock
TodayOf(k, clock) ==
    IF k = None THEN {}
    ELSE {c \in Range(Val(k)) : DtDate(c.start_time) = clock.date}

\* C12: get_todays_pivots returns four None when the series is None, empty
\* or has no candle in the current UTC day; otherwise it returns four values,
\* none of them None, fixed by the candles of that day alone: the times of
\* the day's earliest maximum high and earliest minimum low, in time order,
\* and their hours.
C12_TrackerSeesOnlyToday ==
    TrackerShown =>
        LET today == TodayOf(V.kline_data, now)
            r == V.result
        IN  IF today = {}
            THEN r = [p1_hour |-> None, p2_hour |-> None,
                      p1_time |-> None, p2_time |-> None]
            ELSE /\ r.p1_hour # None /\ r.p2_hour # None
                 /\ r.p1_time # None /\ r.p2_time # None
                 /\ {Val(r.p1_time), Val(r.p2_time)} =
                       {HighTimeOf(today), LowTimeOf(today)}
                 /\ Val(r.p1_time) <= Val(r.p2_time)
                 /\ Val(r.p1_hour) = (Val(r.p1_time) % 96) \div 4
                 /\ Val(r.p2_hour) = (Val(r.p2_time) % 96) \div 4

\* a series whose highest high and lowest low are on a candle of the day
\* before, next to two candles of the current day
C12_Witness ==
    /\ TrackerShown
    /\ V.kline_data # None
    /\ LET today == TodayOf(V.kline_data, now)
           others == Range(Val(V.kline_data)) \ today
       IN  /\ Cardinality(today) = 2
           /\ \E o \in others : \A c \in today : o.high > c.high /\ o.low < c.low
           /\ V.result.p1_time = Some(LowTimeOf(today))
           /\ V.result.p2_time = Some(HighTimeOf(today))
           /\ LowTimeOf(today) < HighTimeOf(today)

\* the three inputs that give four None
C12_WitnessNone == TrackerShown /\ V.kline_data = None /\ V.result.p1_hour = None
C12_WitnessEmpty == TrackerShown /\ V.kline_data = Some(<<>>) /\ V.result.p1_hour = None
C12_WitnessOtherDay ==
    /\ TrackerShown
    /\ V.kline_data # None
    /\ Val(V.kline_data) # <<>>
    /\ TodayOf(V.kline_data, now) = {}
    /\ V.result.p1_time = None

\* the time of P1 and of P2 in the locals l of one iteration of the day loop
P1TimeOf(l) == IF l.p1 = "high" THEN l.high_time ELSE l.low_time
P2TimeOf(l) == IF l.p1 = "high" THEN l.low_time ELSE l.high_time
\* the candles of the current UTC day the daily tab fetched for its tracker
SeenToday(v) == TodayOf(v.timeframe_klines, now)

\* C13 as first stated: in every bucket that yields a pivot pair p1_time is
\* strictly earlier than p2_time, and the two are the time of the bucket's
\* maximum high and the time of its minimum low.
C13_StrictlyOrdered ==
    /\ Analysed =>
          \A i \in DOMAIN A.pivot_locals :
              LET l == A.pivot_locals[i]
              IN  /\ P1TimeOf(l) < P2TimeOf(l)
                  /\ {P1TimeOf(l), P2TimeOf(l)} =
                        {HighTimeOf(Bucket(l.date)), LowTimeOf(Bucket(l.date))}
    /\ (DailyShown /\ V.p1_exact_time # None) =>
          /\ Val(V.p1_exact_time) < Val(V.p2_exact_time)
          /\ {Val(V.p1_exact_time), Val(V.p2_exact_time)} =
                {HighTimeOf(SeenToday(V)), LowTimeOf(SeenToday(V))}

\* C13 (amended): in every bucket that yields a pivot pair p1_time is not
\* later than p2_time, the two are the time of the bucket's (earliest)
\* maximum high and the time of its (earliest) minimum low, and they are
\* the same time exactly when both extremes lie on one candle.
C13_OrderedPivotTimes ==
    /\ Analysed =>
          \A i \in DOMAIN A.pivot_locals :
              LET l == A.pivot_locals[i]
                  B == Bucket(l.date)
              IN  /\ P1TimeOf(l) <= P2TimeOf(l)
                  /\ {P1TimeOf(l), P2TimeOf(l)} = {HighTimeOf(B), LowTimeOf(B)}
                  /\ P1TimeOf(l) = P2TimeOf(l) <=> HighTimeOf(B) = LowTimeOf(B)
                  /\ A.pivot_df[i].p1_hour = (P1TimeOf(l) % 96) \div 4
                  /\ A.pivot_df[i].p2_hour = (P2TimeOf(l) % 96) \div 4
    /\ (DailyShown /\ V.p1_exact_time # None) =>
          LET B == SeenToday(V)
          IN  /\ Val(V.p1_exact_time) <= Val(V.p2_exact_time)
              /\ {Val(V.p1_exact_time), Val(V.p2_exact_time)} =
                    {HighTimeOf(B), LowTimeOf(B)}
              /\ V.p1_exact_time = V.p2_exact_time <=> HighTimeOf(B) = LowTimeOf(B)

\* one analysis with a bucket whose extremes lie on two candles, the high
\* first, and a bucket of a single candle
C13_Witness ==
    /\ Analysed
    /\ \E i, j \in DOMAIN A.pivot_locals :
          /\ A.pivot_locals[i].p1 = "high"
          /\ P1TimeOf(A.pivot_locals[i]) < P2TimeOf(A.pivot_locals[i])
          /\ Cardinality(Bucket(A.pivot_locals[j].date)) = 1
          /\ P1TimeOf(A.pivot_locals[j]) = P2TimeOf(A.pivot_locals[j])

\* C14: when a bucket's maximum high and minimum low lie on one candle, the
\* branch that takes the low as P1 and the high as P2 is the one taken, P1
\* and P2 both have that candle's time and hour, and the bucket has one row,
\* which is tallied once as P1 and once as P2 in that hour when it is among
\* the counted rows; the tracker reports that candle for both as well.
C14_SameCandleExtremes ==
    /\ Analysed =>
          \A i \in DOMAIN A.pivot_locals :
              LET l == A.pivot_locals[i]
                  B == Bucket(l.date)
                  h == (HighTimeOf(B) % 96) \div 4
                  counted == {k \in DOMAIN A.completed_df :
                                 A.completed_df[k].date = l.date}
              IN  HighTimeOf(B) = LowTimeOf(B) =>
                     /\ l.p1 = "low"
                     /\ P1TimeOf(l) = LowTimeOf(B) /\ P2TimeOf(l) = HighTimeOf(B)
                     /\ A.pivot_df[i] = [date |-> l.date, p1_hour |-> h, p2_hour |-> h]
                     /\ Cardinality({k \in DOMAIN A.pivot_df :
                                        A.pivot_df[k].date = l.date}) = 1
                     /\ Cardinality(counted) <= 1
                     /\ counted # {} => A.p1_counts[h] >= 1 /\ A.p2_counts[h] >= 1
                     /\ (\A k \in DOMAIN A.completed_df : A.completed_df[k].date = l.date)
                           => /\ A.p1_counts[h] = 1 /\ A.p2_counts[h] = 1
                              /\ A.result_df[h + 1].P1pct = 1000
                              /\ A.result_df[h + 1].P2pct = 1000
    /\ (DailyShown /\ V.p1_exact_time # None) =>
          LET B == SeenToday(V)
          IN  HighTimeOf(B) = LowTimeOf(B) =>
                 /\ V.p1_exact_time = Some(LowTimeOf(B))
                 /\ V.p2_exact_time = Some(HighTimeOf(B))
                 /\ V.current_p1_hour = V.current_p2_hour

\* a completed day of one candle at 03:15, the only counted bucket: the
\* 03:00 row counts it once as P1 and once as P2
C14_Witness ==
    /\ Analysed
    /\ Len(A.completed_df) = 1
    /\ A.completed_df[1].date # now.date
    /\ Cardinality(Bucket(A.completed_df[1].date)) = 1
    /\ A.completed_df[1].p1_hour = 3
    /\ A.completed_df[1].p2_hour = 3
    /\ A.p1_counts[3] = 1 /\ A.p2_counts[3] = 1
    /\ \E i \in DOMAIN A.pivot_locals :
          A.pivot_locals[i].date = A.completed_df[1].date /\ A.pivot_locals[i].p1 = "low"

\* what an evaluation of the tracker, in the daily tab or called directly,
\* reported as the time and the hour of P1 (None when it reported no pair or
\* o is no such evaluation), and the candles of the current day it was given
P1TimeShown(o) ==
    IF o = None THEN None
    ELSE IF Val(o).tab = "daily" THEN Val(o).p1_exact_time
    ELSE IF Val(o).tab = "tracker" THEN Val(o).result.p1_time
    ELSE None
P1HourShown(o) ==
    IF o = None THEN None
    ELSE IF Val(o).tab = "daily" THEN Val(o).current_p1_hour
    ELSE IF Val(o).tab = "tracker" THEN Val(o).result.p1_hour
    ELSE None
DayGiven(o) ==
    IF Val(o).tab = "daily" THEN TodayOf(Val(o).timeframe_klines, now)
    ELSE TodayOf(Val(o).kline_data, now)

\* the extreme, or both extremes, that the candle at time t holds among the
\* candles old is taken over by a candle of new
TakenOver(t, old, new) ==
    /\ HighTimeOf(old) = t =>
          \E c \in new : \A e \in old : c.high > e.high
    /\ LowTimeOf(old) = t =>
          \E c \in new : \A e \in old : c.low < e.low

\* C15 as first stated: once an evaluation of the in-progress day has
\* reported a pair, every later evaluation reports the same P1, time and
\* hour.
C15_P1NeverChanges ==
    [][(P1TimeShown(view) # None /\ P1TimeShown(view') # None) =>
          /\ P1TimeShown(view') = P1TimeShown(view)
          /\ P1HourShown(view') = P1HourShown(view)]_vars

\* C15 (amended): from one evaluation that reported a pair to the next on
\* the grown series, the reported P1 stays the same, time and hour, unless
\* the appended candles take over every extreme the P1 candle held (a
\* strictly higher high when it held the day's high, a strictly lower low
\* when it held the day's low); when they do, P1 moves to a later candle.
C15_P1UntilTakenOver ==
    [][(P1TimeShown(view) # None /\ P1TimeShown(view') # None) =>
          LET t == Val(P1TimeShown(view))
              old == DayGiven(view)
              new == DayGiven(view')
          IN  /\ old \subseteq new
              /\ IF TakenOver(t, old, new)
                 THEN Val(P1TimeShown(view')) > t
                 ELSE /\ P1TimeShown(view') = P1TimeShown(view)
                      /\ P1HourShown(view') = P1HourShown(view)]_vars

\* an evaluation on three candles of the day that reports the second one as
\* P1: the first one held an extreme when it was alone and has lost it
C15_Witness ==
    /\ P1TimeShown(view) # None
    /\ Cardinality(DayGiven(view)) = 3
    /\ \E c \in DayGiven(view) :
          /\ c.start_time < Val(P1TimeShown(view))
          /\ \E e \in DayGiven(view) : e.start_time > Val(P1TimeShown(view))

\* the weeks before the in-progress ISO week that have a kept candle
CompletedWeeks == Weeks \ {now.date \div 7}

\* C16: in the weekly analysis, when at least one completed week exists the
\* in-progress ISO week is counted in no weekday's P1 / P2 tally and not in
\* total_weeks, which is the number of completed weeks.
C16_CurrentWeekExcluded ==
    (WeeklyShown /\ CompletedWeeks # {}) =>
        /\ V.total_weeks = Cardinality(CompletedWeeks)
        /\ \A k \in AllWeekdays :
              /\ V.p1_counts[weekday_names[k + 1]] =
                    Cardinality({w \in CompletedWeeks : DtDayOfWeek(WeekP1Time(w)) = k})
              /\ V.p2_counts[weekday_names[k + 1]] =
                    Cardinality({w \in CompletedWeeks : DtDayOfWeek(WeekP2Time(w)) = k})

\* the distance between two integers
Dist(a, b) == IF a >= b THEN a - b ELSE b - a

\* C17: when at least one bucket is counted, the P1 % of the 24 rows sum to
\* 100.0 within 0.1 * 24, and so do the P2 %; the P1 % and the P2 % of the 7
\* rows of the weekly table sum to 100.0 within 0.1 * 7.
C17_PercentagesSumTo100 ==
    /\ (Analysed /\ A.completed_days >= 1) =>
          /\ Dist(SumOver([h \in Hours |-> A.result_df[h + 1].P1pct], Hours), 1000) <= 24
          /\ Dist(SumOver([h \in Hours |-> A.result_df[h + 1].P2pct], Hours), 1000) <= 24
    /\ WeeklyShown =>
          /\ Dist(WeeklyMass("P1pct", AllWeekdays), 1000) <= 7
          /\ Dist(WeeklyMass("P2pct", AllWeekdays), 1000) <= 7

\* three counted days with their P1 in three different hours: 33.3 three
\* times, 99.9 in all
C17_Witness ==
    /\ Analysed
    /\ A.completed_days = 3
    /\ Cardinality({h \in Hours : A.result_df[h + 1].P1pct = 333}) = 3
    /\ SumOver([h \in Hours |-> A.result_df[h + 1].P1pct], Hours) = 999

\* the weekly counterpart: a sum other than 100.0 over three or more weeks
C17_WitnessWeekly ==
    /\ WeeklyShown
    /\ V.total_weeks >= 3
    /\ WeeklyMass("P1pct", AllWeekdays) # 1000

\* the dates of the buckets that are counted: the completed ones, or every
\* bucket when none is completed
CountedDates == IF CompletedDates # {} THEN CompletedDates ELSE BucketDates

\* v tenths of a percent is 100 * count / denominator rounded to one decimal
IsRoundedPct(v, count, denominator) ==
    2 * Dist(v * denominator, 1000 * count) <= denominator

\* C18: each row's P1 % is 100 * p1_count / denominator rounded to one
\* decimal, the denominator being the number of counted buckets, and so is
\* its P2 %; with no counted bucket every percentage is 0.0 and nothing is
\* divided by zero; when every counted bucket has its P1 in one hour, that
\* row shows 100.0 and every other row 0.0.
C18_RowPercentages ==
    Analysed =>
        LET den == Cardinality(CountedDates)
            n1(h) == Cardinality({d \in CountedDates : RowOf(d).p1_hour = h})
            n2(h) == Cardinality({d \in CountedDates : RowOf(d).p2_hour = h})
        IN  /\ A.completed_days = den
            /\ \A h \in Hours :
                  IF den = 0
                  THEN A.result_df[h + 1].P1pct = 0 /\ A.result_df[h + 1].P2pct = 0
                  ELSE /\ IsRoundedPct(A.result_df[h + 1].P1pct, n1(h), den)
                       /\ IsRoundedPct(A.result_df[h + 1].P2pct, n2(h), den)
            /\ \A h \in Hours :
                  (den > 0 /\ n1(h) = den) =>
                      \A g \in Hours :
                          A.result_df[g + 1].P1pct = IF g = h THEN 1000 ELSE 0

\* three counted days, two of them with their P1 at 09:00: 66.7, rounded up
C18_Witness ==
    /\ Analysed
    /\ A.completed_days = 3
    /\ A.p1_counts[9] = 2
    /\ A.result_df[10].P1pct = 667
    /\ A.result_df[4].P1pct + A.result_df[16].P1pct = 333

\* two completed days, both with their P1 at 09:00: 100.0 there, 0.0 elsewhere
C18_WitnessOneHour ==
    /\ Analysed
    /\ A.completed_days = 2
    /\ A.p1_counts[9] = 2
    /\ A.result_df[10].P1pct = 1000

\* the object of a series as it was fetched: its seven columns, its rows
Untouched(rows) ==
    [columns |-> {"start_time", "open", "high", "low", "close", "volume", "turnover"},
     written |-> {}, rows |-> rows]

\* the last render of the weekly tab, when it got as far as copying the
\* fetched series
WeeklyFetched ==
    /\ view # None
    /\ Val(view).tab = "weekly"
    /\ Val(view).info # "No data available for Weekly timeframe"

\* C20: after calculate_pivot_analysis, get_todays_pivots and
\* render_weekly_analysis the series object they were given (or fetched) has
\* the rows it had, in the same order, and the same columns: no 'date',
\* 'weekday', 'weekday_name', 'year' or 'week' column was added to it.
C20_CallerSeriesUnchanged ==
    /\ (Analysed /\ A.df_in # None) =>
          A.caller_df = Some(Untouched(Val(A.df_in)))
    /\ (DailyShown /\ V.timeframe_klines # None) =>
          V.timeframe_klines_after = Some(Untouched(Val(V.timeframe_klines)))
    /\ WeeklyFetched =>
          V.weekly_klines_after = Some(Untouched(Val(V.weekly_klines)))

\* a weekly render that went through every statement on a series of two
\* candles, after an analysis: the fetched series still has its seven columns
C20_Witness ==
    /\ WeeklyShown
    /\ Len(Val(V.weekly_klines)) >= 2
    /\ Len(V.weekly_klines_copy) < Len(Val(V.weekly_klines))
    /\ Val(V.weekly_klines_after).columns = CandleColumns
    /\ Val(V.weekly_klines_after).rows = Val(V.weekly_klines)

\* the same for an analysis and for the tracker
C20_WitnessAnalysis ==
    Analysed /\ A.pivot_df # <<>> /\ Val(A.caller_df).rows = Val(A.df_in)
C20_WitnessTracker ==
    /\ DailyShown
    /\ V.current_p1_hour # None
    /\ Val(V.timeframe_klines_after).rows = Val(V.timeframe_klines)


(***************************************************************************)
(* The stored table and the renders.                                       *)
(***************************************************************************)
\* the table the last Analyze stored
LastAnalyzed == IF analysis = None THEN build_empty_pivot_table ELSE A.result_df

\* C21: whatever was rendered since the last Analyze, with or without a
\* provisional P1/P2 of the live day, st.session_state.pivot_data holds the
\* rows the Analyze stored and none of its columns was overwritten.
C21_RenderLeavesStoredTable ==
    pivot_data # None =>
        /\ pivot_data = Some(LastAnalyzed)
        /\ pivot_data_written = {}

\* the daily tab rendered with a provisional pair, over a table with counts
C21_Witness ==
    /\ DailyInsights
    /\ V.current_p1_hour # None
    /\ Analysed
    /\ \E i \in DOMAIN T : T[i].P1pct > 0 /\ T[i].LastP1 # None
    /\ pivot_data_written = {}
\* the weekly tab rendered after an Analyze (of no 15-minute candle)
C21_WitnessWeekly == WeeklyInsights /\ pivot_data = Some(build_empty_pivot_table)


(***************************************************************************)
(* fetch_bybit_data in steps: the range is cut into chunks, a worker thread *)
(* per chunk pages through it from its end, the main thread gathers the     *)
(* chunks as they complete and builds the series.  The smallest step of     *)
(* time of the code, the millisecond, is the unit of the model here; the    *)
(* exchange answers a request with the newest max_limit candles of the      *)
(* requested range, or fails.                                               *)
(***************************************************************************)
\* batch_size_days (30 in the code), scaled to the modelled history
BatchSizeDays == 2
\* max_limit (200 in the code), scaled to the modelled history
MaxLimit == 2
\* a fetch sees at most MaxRateLimits rate-limit answers
MaxRateLimits == 2

\* the chunks from current_end down to start_time, newest first (490-495)
RECURSIVE DateRangesFrom(_, _)
DateRangesFrom(start_time, current_end) ==
    IF current_end > start_time
    THEN LET chunk_start == IF current_end - BatchSizeDays * 96 > start_time
                            THEN current_end - BatchSizeDays * 96 ELSE start_time
             next_end == chunk_start - 1
         IN  <<[chunk_start |-> chunk_start, chunk_end |-> current_end]>> \o
             (IF next_end < start_time THEN <<>>
              ELSE DateRangesFrom(start_time, next_end))
    ELSE <<>>

Reverse(s) == [i \in 1..Len(s) |-> s[Len(s) + 1 - i]]

\* date_ranges after date_ranges.reverse() (497)
DateRanges(start_time, end_time) == Reverse(DateRangesFrom(start_time, end_time))

\* what the exchange can answer to one request
Responses == {"ok", "rate limit", "error", "exception", "malformed"}

\* the list of a successful answer, as fetch_single_batch returns it after
\* klines.reverse(): the newest max_limit candles of [start_ts, end_ts],
\* oldest first
PageWithLimit(history, start_ts, end_ts, limit) ==
    LET inside == SelectSeq(history,
                      LAMBDA c : c.start_time >= start_ts /\ c.start_time <= end_ts)
        n == Len(inside)
    IN  IF n <= limit THEN inside ELSE SubSeq(inside, n - limit + 1, n)
PageOf(history, start_ts, end_ts) == PageWithLimit(history, start_ts, end_ts, MaxLimit)

\* fetch_single_batch: (klines, error)
fetch_single_batch(history, start_ts, end_ts, response) ==
    CASE response \in {"ok", "malformed"} ->
             [klines |-> Some(PageOf(history, start_ts, end_ts)), error |-> None]
      [] response = "rate limit" -> [klines |-> None, error |-> Some("rate limit")]
      [] OTHER -> [klines |-> None, error |-> Some("other")]

\* a worker as executor.submit starts it (504-509)
NewWorker(range) ==
    [pc |-> "run", current_chunk_end |-> range.chunk_end, chunk_klines |-> <<>>,
     requests |-> 0, failed |-> FALSE]

\* one iteration of the loop of fetch_chunk (511-535), with the return that
\* follows the loop's end (537-538); an answer that is no list of candles
\* makes int(klines[0][0]) raise in the worker
fetch_chunk_step(w, range, history, response) ==
    LET got == fetch_single_batch(history, range.chunk_start, w.current_chunk_end,
                                  response)
        asked == [w EXCEPT !.requests = @ + 1]
    IN  IF got.error # None
        THEN IF Val(got.error) = "rate limit" THEN asked
             ELSE [asked EXCEPT !.pc = "done", !.failed = TRUE]
        ELSE IF response = "malformed" /\ Val(got.klines) # <<>>
        THEN [asked EXCEPT !.pc = "raised", !.failed = TRUE]
        ELSE
        LET klines == Val(got.klines)
        IN  IF klines = <<>> THEN [asked EXCEPT !.pc = "done"]
            ELSE LET oldest_dt == klines[1].start_time
                     kept == [asked EXCEPT !.chunk_klines = @ \o klines]
                 IN  IF oldest_dt <= range.chunk_start \/ Len(klines) < MaxLimit
                     THEN [kept EXCEPT !.pc = "done"]
                     ELSE [kept EXCEPT !.current_chunk_end = oldest_dt - 1]

\* df.drop_duplicates(subset=["start_time"]): the first row of each start_time
RECURSIVE DropDuplicates(_)
DropDuplicates(df) ==
    IF df = <<>> THEN <<>>
    ELSE LET front == DropDuplicates(SubSeq(df, 1, Len(df) - 1))
             last == df[Len(df)]
         IN  IF \E i \in DOMAIN front : front[i].start_time = last.start_time
             THEN front ELSE Append(front, last)

\* (a slip to test C22 against: the rows left in the order of arrival)
BuildSeries_Unsorted(all_klines, start_time, end_time) ==
    IF all_klines = <<>> THEN None
    ELSE Some(SelectSeq(DropDuplicates(all_klines),
                  LAMBDA c : c.start_time >= start_time /\ c.start_time <= end_time))

\* lines 564-579: the series built from all_klines, or None
BuildSeries(all_klines, start_time, end_time) ==
    IF all_klines = <<>> THEN None
    ELSE Some(SelectSeq(SortValues(DropDuplicates(all_klines)),
                  LAMBDA c : c.start_time >= start_time /\ c.start_time <= end_time))

\* the Analyze button pressed: the range of the sidebar's dates (471-474), its
\* chunks, a worker submitted for each (543-544)
FetchStart ==
    /\ fetch = Idle
    /\ LET start_time == 0
           end_time == (now.date + 1) * 96 - 1
           date_ranges == DateRanges(start_time, end_time)
       IN  fetch' = [pc |-> "gathering", start_time |-> start_time,
                     end_time |-> end_time, date_ranges |-> date_ranges,
                     workers |-> [i \in DOMAIN date_ranges |-> NewWorker(date_ranges[i])],
                     completed |-> <<>>, all_klines |-> <<>>, rate_limits |-> 0,
                     df |-> None]
    /\ UNCHANGED <<market, selected_weekdays_numeric, now, local_today,
                   pivot_data, pivot_stats, analysis, view, pivot_data_written>>
    /\ UNCHANGED <<backfill, cache, session, reader>>

\* a worker thread sends its next request and handles the answer
WorkerRequest ==
    /\ fetch.pc = "gathering"
    /\ \E i \in DOMAIN fetch.workers : \E response \in Responses :
          /\ fetch.workers[i].pc = "run"
          /\ response = "rate limit" => fetch.rate_limits < MaxRateLimits
          /\ fetch' = [fetch EXCEPT
                !.workers[i] = fetch_chunk_step(@, fetch.date_ranges[i], market.m15,
                                                response),
                !.rate_limits = IF response = "rate limit" THEN @ + 1 ELSE @]
    /\ UNCHANGED <<market, selected_weekdays_numeric, now, local_today,
                   pivot_data, pivot_stats, analysis, view, pivot_data_written>>
    /\ UNCHANGED <<backfill, cache, session, reader>>

\* the main thread takes the next completed future (547-560): its rows are
\* appended, or its exception is shown as a warning
ChunkCompleted ==
    /\ fetch.pc = "gathering"
    /\ \E i \in DOMAIN fetch.workers :
          /\ fetch.workers[i].pc \in {"done", "raised"}
          /\ \A k \in DOMAIN fetch.completed : fetch.completed[k] # i
          /\ fetch' = [fetch EXCEPT
                !.completed = Append(@, i),
                !.all_klines = IF fetch.workers[i].pc = "done"
                               THEN @ \o fetch.workers[i].chunk_klines ELSE @]
    /\ UNCHANGED <<market, selected_weekdays_numeric, now, local_today,
                   pivot_data, pivot_stats, analysis, view, pivot_data_written>>
    /\ UNCHANGED <<backfill, cache, session, reader>>

\* every future taken: fetch_bybit_data returns (562-579)
FetchReturns ==
    /\ fetch.pc = "gathering"
    /\ Len(fetch.completed) = Len(fetch.workers)
    /\ fetch' = [fetch EXCEPT !.pc = "returned",
                              !.df = BuildSeries(fetch.all_klines, fetch.start_time,
                                                 fetch.end_time)]
    /\ UNCHANGED <<market, selected_weekdays_numeric, now, local_today,
                   pivot_data, pivot_stats, analysis, view, pivot_data_written>>
    /\ UNCHANGED <<backfill, cache, session, reader>>

\* the Analyze handler goes on with what the fetch returned (739-768)
AnalyzeFetched ==
    /\ fetch.pc = "returned"
    /\ LET df == fetch.df
       IN  IF df = None \/ Val(df) = <<>>
           THEN /\ pivot_data' = Some(build_empty_pivot_table)
                /\ pivot_stats' = [days_analyzed |-> 0]
                /\ analysis' = None
           ELSE LET r == calculate_pivot_analysis(df, selected_weekdays_numeric,
                                                  now.date, local_today)
                IN  /\ pivot_data' = Some(r.result_df)
                    /\ pivot_stats' = [days_analyzed |-> r.completed_days]
                    /\ analysis' = Some(r)
    /\ fetch' = [fetch EXCEPT !.pc = "analysed"]
    /\ view' = None
    /\ pivot_data_written' = {}
    /\ UNCHANGED <<market, selected_weekdays_numeric, now, local_today>>
    /\ UNCHANGED <<backfill, cache, session, reader>>

\* the histories of the fetch: candles of one shape on the 15-minute grid
FetchHistories ==
    {MkSeries([t \in S |-> <<2, 1>>]) :
        S \in {S \in SUBSET Grid15 : Cardinality(S) <= MaxCandles}}

InitFetch ==
    /\ now \in Clocks15
    /\ \E h \in FetchHistories :
          /\ NoFuture(h, now)
          /\ market = [m15 |-> h, d |-> <<>>]
    /\ selected_weekdays_numeric = AllWeekdays
    /\ local_today = now.date
    /\ pivot_data = None
    /\ pivot_stats = [days_analyzed |-> 0]
    /\ analysis = None
    /\ view = None
    /\ pivot_data_written = {}
    /\ ServicesIdle

NextFetch ==
    FetchStart \/ WorkerRequest \/ ChunkCompleted \/ FetchReturns \/ AnalyzeFetched

SpecFetch == InitFetch /\ [][NextFetch]_vars


(***************************************************************************)
(* Properties of the fetch.                                                *)
(***************************************************************************)
FetchReturned == fetch.pc \in {"returned", "analysed"}
\* the rows of the returned series (none when None was returned)
FetchedRows == IF fetch.df = None THEN <<>> ELSE Val(fetch.df)
\* the candles the workers that returned had gathered
GatheredRows ==
    UNION {Range(fetch.workers[i].chunk_klines) :
              i \in {i \in DOMAIN fetch.workers : fetch.workers[i].pc = "done"}}
\* the candles of a set, one per start_time, in ascending start_time
SeriesOf(S) ==
    LET ts == SetToSeq({c.start_time : c \in S})
    IN  [i \in 1..Len(ts) |-> CHOOSE c \in S : c.start_time = ts[i]]
\* the chunks of which a request failed or whose worker raised
FailedChunks == {i \in DOMAIN fetch.workers : fetch.workers[i].failed}

\* C22: in whatever order the chunks complete, the returned series is the
\* gathered candles in strictly ascending start_time (hence unique), all
\* inside [start_time, end_time]; None is returned exactly when no candle
\* was gathered; and when no request failed it is the history of the range.
C22_SeriesWhateverTheOrder ==
    FetchReturned =>
        /\ \A i, j \in DOMAIN FetchedRows :
              i < j => FetchedRows[i].start_time < FetchedRows[j].start_time
        /\ \A i \in DOMAIN FetchedRows :
              /\ FetchedRows[i].start_time >= fetch.start_time
              /\ FetchedRows[i].start_time <= fetch.end_time
        /\ FetchedRows = SeriesOf(GatheredRows)
        /\ (fetch.df = None) <=> (GatheredRows = {})
        /\ FailedChunks = {} =>
              fetch.df = fetch_bybit_data(market.m15, fetch.start_time, fetch.end_time)

\* two chunks with candles, the later chunk completed first, the earlier one
\* fetched in two pages
C22_Witness ==
    /\ FetchReturned
    /\ Len(fetch.workers) = 2
    /\ fetch.completed = <<2, 1>>
    /\ fetch.workers[1].chunk_klines # <<>>
    /\ fetch.workers[2].chunk_klines # <<>>
    /\ FailedChunks = {}
    /\ Len(FetchedRows) = 3
\* a chunk of three candles fetched in two requests
C22_WitnessTwoPages ==
    /\ FetchReturned
    /\ \E i \in DOMAIN fetch.workers :
          /\ Len(fetch.workers[i].chunk_klines) = 3
          /\ fetch.workers[i].requests = 2
    /\ Len(FetchedRows) = 3


\* the candles the exchange holds in the range of chunk i
ChunkCandles(i) ==
    {c \in Range(market.m15) :
        /\ c.start_time >= fetch.date_ranges[i].chunk_start
        /\ c.start_time <= fetch.date_ranges[i].chunk_end}

\* C23: a series that reached calculate_pivot_analysis holds the candles of
\* every chunk of which a request failed or whose worker raised: no fetch
\* with a failed chunk hands on a series without that chunk's candles.
C23_NoPartialSeriesAnalysed ==
    (fetch.pc = "analysed" /\ Analysed) =>
        \A i \in FailedChunks : ChunkCandles(i) \subseteq GivenCandles


(***************************************************************************)
(* The analysis cache (src/utils/supabase_client.py): the row of one key   *)
(* of pivot_analysis_cache, written by save_pivot_analysis_to_cache and    *)
(* read by get_cached_pivot_analysis, whose results st.cache_data keeps    *)
(* for ttl seconds.  The clock counts quarter-hours.                       *)
(***************************************************************************)
\* one hour, the age limit of line 145 and the ttl of line 104, in quarters
CacheTtl == 4
\* the clock of the cache runs from 0 to MaxClock
MaxClock == 10

\* the body of get_cached_pivot_analysis (116-156) at the instant clock: the
\* newest row of the key when it is at most an hour old, None when there
\* is none, when it is older, or when the lookup fails
get_cached_pivot_analysis(row, clock, lookup) ==
    IF lookup = "fails" THEN None
    ELSE IF row = None THEN None
    ELSE IF clock - Val(row).last_updated > CacheTtl THEN None
    ELSE row

\* @st.cache_data(ttl=3600) around it (104): the value kept for the same
\* arguments is returned while it is younger than the ttl
MemoValid(memo, clock) == memo # None /\ clock - Val(memo).stored_at < CacheTtl

InitCache ==
    /\ now = [date |-> MaxDay, hour |-> 4]
    /\ market = [m15 |-> <<>>, d |-> <<>>]
    /\ selected_weekdays_numeric = AllWeekdays
    /\ local_today = now.date
    /\ pivot_data = None
    /\ pivot_stats = [days_analyzed |-> 0]
    /\ analysis = None
    /\ view = None
    /\ pivot_data_written = {}
    /\ fetch = Idle
    /\ backfill = Idle
    /\ session = Idle
    /\ reader = Idle
    /\ cache = [pc |-> "serving", clock |-> 0, row |-> None, memo |-> None,
                called_at |-> None, result |-> None]

\* a quarter of an hour passes
ClockTicks ==
    /\ cache.clock < MaxClock
    /\ cache' = [cache EXCEPT !.clock = @ + 1]
    /\ UNCHANGED <<market, selected_weekdays_numeric, now, local_today,
                   pivot_data, pivot_stats, analysis, view, pivot_data_written>>
    /\ UNCHANGED <<fetch, backfill, session, reader>>

\* save_pivot_analysis_to_cache (158-192): the key's row replaced (upsert)
SaveToCache ==
    /\ cache' = [cache EXCEPT !.row = Some([last_updated |-> cache.clock])]
    /\ UNCHANGED <<market, selected_weekdays_numeric, now, local_today,
                   pivot_data, pivot_stats, analysis, view, pivot_data_written>>
    /\ UNCHANGED <<fetch, backfill, session, reader>>

\* a call of get_cached_pivot_analysis with the key's arguments
GetCached ==
    /\ \E lookup \in {"ok", "fails"} :
          IF MemoValid(cache.memo, cache.clock)
          THEN cache' = [cache EXCEPT !.called_at = Some(cache.clock),
                                      !.result = Val(cache.memo).value]
          ELSE LET value == get_cached_pivot_analysis(cache.row, cache.clock, lookup)
               IN  cache' = [cache EXCEPT
                       !.called_at = Some(cache.clock),
                       !.result = value,
                       !.memo = Some([value |-> value, stored_at |-> cache.clock])]
    /\ UNCHANGED <<market, selected_weekdays_numeric, now, local_today,
                   pivot_data, pivot_stats, analysis, view, pivot_data_written>>
    /\ UNCHANGED <<fetch, backfill, session, reader>>

NextCache == ClockTicks \/ SaveToCache \/ GetCached

SpecCache == InitCache /\ [][NextCache]_vars

\* C24: a call of get_cached_pivot_analysis that returns a table returns
\* one whose last_updated is at most one hour before the call.
C24_NeverOlderThanOneHour ==
    (cache.pc = "serving" /\ cache.called_at # None /\ cache.result # None) =>
        Val(cache.called_at) - Val(cache.result).last_updated <= CacheTtl


(***************************************************************************)
(* Authentication (src/utils/auth.py): check_access on every run of the    *)
(* app, with the query parameters of the request and the session state     *)
(* kept between runs.                                                      *)
(***************************************************************************)
Users == {"alice", "mallory"}
\* the users of whom Whop reports an active membership
ActiveMembers == {"alice"}
OptUser == {None} \cup {Some(u) : u \in Users}

\* st.query_params as far as check_access reads it
QueryParams ==
    [whop_iframe : {None, Some("true")}, experience_id : {None, Some("exp")},
     user_id : OptUser, userId : OptUser, whop_user_id : OptUser]

\* a or b of two values that are None or a non-empty string
Or(a, b) == IF a # None THEN a ELSE b

\* is_iframe_context (28-31)
is_iframe_context(query_params) ==
    query_params.whop_iframe = Some("true") \/ query_params.experience_id # None

\* validate_whop_membership (33-110): True for an active member when the
\* API answers, False otherwise
validate_whop_membership(user_id, api_answers) ==
    api_answers /\ user_id \in ActiveMembers

\* the session state of a new session
NewSessionState ==
    [whop_user_id |-> None, whop_user_data |-> FALSE,
     whop_iframe_validated |-> FALSE, whop_validated |-> FALSE]

\* check_access (112-195): has_access, the session state it leaves, and the
\* users validate_whop_membership reported active in this call
check_access(dev_mode, query_params, ss, api_answers) ==
    IF dev_mode THEN [has_access |-> TRUE, ss |-> ss, validated |-> {}]
    ELSE IF is_iframe_context(query_params)
    THEN LET user_id == Or(query_params.user_id, query_params.userId)
         IN  IF user_id # None
             THEN IF ss.whop_user_id # user_id \/ ~ss.whop_user_data
                  THEN IF ~validate_whop_membership(Val(user_id), api_answers)
                       THEN [has_access |-> FALSE, ss |-> ss, validated |-> {}]
                       ELSE [has_access |-> TRUE,
                             ss |-> [ss EXCEPT !.whop_iframe_validated = TRUE,
                                               !.whop_user_id = user_id,
                                               !.whop_user_data = TRUE],
                             validated |-> {Val(user_id)}]
                  ELSE [has_access |-> TRUE, ss |-> ss, validated |-> {}]
             ELSE [has_access |-> TRUE, ss |-> ss, validated |-> {}]
    ELSE LET whop_user_id == Or(query_params.user_id, query_params.whop_user_id)
         IN  IF /\ whop_user_id # None
                /\ ~ss.whop_validated
                /\ validate_whop_membership(Val(whop_user_id), api_answers)
             THEN [has_access |-> TRUE,
                   ss |-> [ss EXCEPT !.whop_user_id = whop_user_id,
                                     !.whop_user_data = TRUE,
                                     !.whop_validated = TRUE],
                   validated |-> {Val(whop_user_id)}]
             ELSE IF ss.whop_validated
             THEN [has_access |-> TRUE, ss |-> ss, validated |-> {}]
             ELSE [has_access |-> FALSE, ss |-> ss, validated |-> {}]

InitAuth ==
    /\ now = [date |-> MaxDay, hour |-> 4]
    /\ market = [m15 |-> <<>>, d |-> <<>>]
    /\ selected_weekdays_numeric = AllWeekdays
    /\ local_today = now.date
    /\ pivot_data = None
    /\ pivot_stats = [days_analyzed |-> 0]
    /\ analysis = None
    /\ view = None
    /\ pivot_data_written = {}
    /\ fetch = Idle
    /\ backfill = Idle
    /\ cache = Idle
    /\ reader = Idle
    /\ \E dev_mode \in BOOLEAN :
          session = [pc |-> "new", dev_mode |-> dev_mode, ss |-> NewSessionState,
                     validated |-> {}]

\* a run of the app: require_authentication calls check_access (197-202)
RequireAuthentication ==
    /\ \E query_params \in QueryParams : \E api_answers \in BOOLEAN :
          LET r == check_access(session.dev_mode, query_params, session.ss,
                                api_answers)
          IN  session' = [pc |-> "checked", dev_mode |-> session.dev_mode,
                          ss |-> r.ss, validated |-> session.validated \cup r.validated,
                          query_params |-> query_params, has_access |-> r.has_access]
    /\ UNCHANGED <<market, selected_weekdays_numeric, now, local_today,
                   pivot_data, pivot_stats, analysis, view, pivot_data_written>>
    /\ UNCHANGED <<fetch, backfill, cache, reader>>

NextAuth == RequireAuthentication

SpecAuth == InitAuth /\ [][NextAuth]_vars

\* C25: with development mode off, a run is granted access only if
\* validate_whop_membership reported an active membership in the session,
\* in this run or in an earlier one.
C25_AccessOnlyAfterValidation ==
    (session.pc = "checked" /\ ~session.dev_mode /\ session.has_access) =>
        session.validated # {}


(***************************************************************************)
(* Recency across time zones.                                              *)
(***************************************************************************)
\* C26: every Last P1 / Last P2 of the stored daily table and of the weekly
\* table shown, when it is a number of days, is zero or more, whatever the
\* host's local date is relative to the UTC date.
C26_RecencyNonNegative ==
    /\ pivot_data # None =>
          \A i \in DOMAIN T :
             /\ T[i].LastP1 # None => Val(T[i].LastP1) >= 0
             /\ T[i].LastP2 # None => Val(T[i].LastP2) >= 0
    /\ WeeklyShown =>
          \A k \in DOMAIN V.weekly_df :
             /\ "days" \in DOMAIN V.weekly_df[k].LastP1 => V.weekly_df[k].LastP1.days >= 0
             /\ "days" \in DOMAIN V.weekly_df[k].LastP2 => V.weekly_df[k].LastP2.days >= 0


(***************************************************************************)
(* The provisional pair over the in-progress day.                          *)
(***************************************************************************)
P2TimeShown(o) ==
    IF o = None THEN None
    ELSE IF Val(o).tab = "daily" THEN Val(o).p2_exact_time
    ELSE IF Val(o).tab = "tracker" THEN Val(o).result.p2_time
    ELSE None
P2HourShown(o) ==
    IF o = None THEN None
    ELSE IF Val(o).tab = "daily" THEN Val(o).current_p2_hour
    ELSE IF Val(o).tab = "tracker" THEN Val(o).result.p2_hour
    ELSE None

\* C27: from one evaluation of the in-progress day that reported a pair to
\* the next, made on a series that holds the candles of the first and the
\* ones appended since, neither p1_time nor p2_time moves earlier, and in
\* the later evaluation p1_time <= p2_time and p1_hour <= p2_hour.
C27_PivotTimesNeverEarlier ==
    [][(P1TimeShown(view) # None /\ P1TimeShown(view') # None) =>
          /\ DayGiven(view) \subseteq DayGiven(view')
          /\ Val(P1TimeShown(view')) >= Val(P1TimeShown(view))
          /\ Val(P2TimeShown(view')) >= Val(P2TimeShown(view))
          /\ Val(P1TimeShown(view')) <= Val(P2TimeShown(view'))
          /\ Val(P1HourShown(view')) <= Val(P2HourShown(view'))]_vars

\* an evaluation on three candles of the day in which both times lie after
\* the first candle: each of them has moved since the first candle was alone
C27_Witness ==
    /\ P1TimeShown(view) # None
    /\ Cardinality(DayGiven(view)) = 3
    /\ \E c \in DayGiven(view) : c.start_time < Val(P1TimeShown(view))
    /\ Val(P1TimeShown(view)) < Val(P2TimeShown(view))


(***************************************************************************)
(* fetch_bybit_candles of the backfill script                              *)
(* (src/scripts/backfill_historical_data.py), one request at a time.  The  *)
(* exchange answers with the newest `limit` candles of [start, end],       *)
(* newest first.                                                           *)
(***************************************************************************)
\* max_retries, the default of the parameter
max_retries == 3
\* "limit": 1000 of the request, scaled to the modelled history
BackfillLimit == 2
\* a run of the backfill is followed for at most MaxBackfillRequests requests
MaxBackfillRequests == 5

\* result.list of a successful answer
BackfillPage(history, start_ts, end_ts) ==
    LET page == PageWithLimit(history, start_ts, end_ts, BackfillLimit)
    IN  Reverse(page)

\* the run after `break` has left the attempt loop (the loop's else clause
\* is skipped): the while condition of line 40 is read again
BackToWhile(b) ==
    IF b.current_start < b.end_ts
    THEN [b EXCEPT !.attempt = 0]
    ELSE [b EXCEPT !.pc = "done", !.result = [kind |-> "list", klines |-> b.all_klines]]

\* one request of the attempt loop (51-89) and what follows it up to the
\* next request or the return
fetch_bybit_candles_step(b, history, response) ==
    LET asked == [b EXCEPT !.requests = @ + 1]
    IN  IF response = "ok"
        THEN LET klines == BackfillPage(history, b.current_start, b.end_ts)
             IN  IF klines = <<>>
                 THEN BackToWhile([asked EXCEPT !.last = Some([empty |-> TRUE,
                                                               advanced |-> FALSE])])
                 ELSE LET kept == [asked EXCEPT !.all_klines = @ \o klines]
                          oldest_ts == MinOf({klines[i].start_time : i \in DOMAIN klines})
                      IN  IF oldest_ts <= b.current_start
                          THEN BackToWhile([kept EXCEPT
                                   !.last = Some([empty |-> FALSE, advanced |-> FALSE])])
                          ELSE BackToWhile([kept EXCEPT
                                   !.current_start = oldest_ts,
                                   !.last = Some([empty |-> FALSE, advanced |-> TRUE])])
        ELSE IF b.attempt < max_retries - 1
        THEN [asked EXCEPT !.attempt = @ + 1, !.failures = @ + 1]
        ELSE [asked EXCEPT !.pc = "done", !.failures = @ + 1,
                           !.result = [kind |-> "none"]]

\* backfill_symbol calls fetch_bybit_candles for the range up to now (197)
BackfillStart ==
    /\ backfill = Idle
    /\ \E start_ts \in {0, 96} :
          backfill' = [pc |-> "loop", start_ts |-> start_ts, end_ts |-> NowTime,
                       current_start |-> start_ts, all_klines |-> <<>>, attempt |-> 0,
                       requests |-> 0, failures |-> 0, last |-> None,
                       result |-> [kind |-> "pending"]]
    /\ UNCHANGED <<market, selected_weekdays_numeric, now, local_today,
                   pivot_data, pivot_stats, analysis, view, pivot_data_written>>
    /\ UNCHANGED <<fetch, cache, session, reader>>

BackfillRequest ==
    /\ backfill.pc = "loop"
    /\ backfill.requests < MaxBackfillRequests
    /\ \E response \in {"ok", "error", "exception"} :
          backfill' = fetch_bybit_candles_step(backfill, market.m15, response)
    /\ UNCHANGED <<market, selected_weekdays_numeric, now, local_today,
                   pivot_data, pivot_stats, analysis, view, pivot_data_written>>
    /\ UNCHANGED <<fetch, cache, session, reader>>

InitBackfill ==
    /\ now \in Clocks15
    /\ \E h \in FetchHistories :
          /\ NoFuture(h, now)
          /\ market = [m15 |-> h, d |-> <<>>]
    /\ selected_weekdays_numeric = AllWeekdays
    /\ local_today = now.date
    /\ pivot_data = None
    /\ pivot_stats = [days_analyzed |-> 0]
    /\ analysis = None
    /\ view = None
    /\ pivot_data_written = {}
    /\ ServicesIdle

NextBackfill == BackfillStart \/ BackfillRequest

SpecBackfill == InitBackfill /\ [][NextBackfill]_vars

\* the candles the exchange holds in the range of the backfill
BackfillRange ==
    {c \in Range(market.m15) :
        c.start_time >= backfill.start_ts /\ c.start_time <= backfill.end_ts}

\* C28: while every request succeeds, fetch_bybit_candles has returned after
\* a page came back empty or did not advance the cursor, it makes no more
\* requests than the range has candles plus one, and no candle is twice in
\* all_klines.
C28_BackfillTerminates ==
    (backfill.pc # "idle" /\ backfill.failures = 0) =>
        /\ (backfill.pc = "loop" /\ backfill.last # None) =>
              (~Val(backfill.last).empty /\ Val(backfill.last).advanced)
        /\ backfill.requests <= Cardinality(BackfillRange) + 1
        /\ \A i, j \in DOMAIN backfill.all_klines :
              i < j => backfill.all_klines[i].start_time # backfill.all_klines[j].start_time


(***************************************************************************)
(* The pagination loop of fetch_chunk.                                     *)
(***************************************************************************)
\* C29: every request a worker of fetch_chunk sends either ends its loop or
\* leaves current_chunk_end strictly earlier than it was, whatever the
\* exchange answers.
C29_EveryRequestEndsOrMovesEarlier ==
    [][(fetch.pc = "gathering" /\ fetch'.pc = "gathering") =>
          \A i \in DOMAIN fetch.workers :
             fetch'.workers[i].requests > fetch.workers[i].requests =>
                \/ fetch'.workers[i].pc # "run"
                \/ fetch'.workers[i].current_chunk_end < fetch.workers[i].current_chunk_end]_vars


(***************************************************************************)
(* fetch_candles_from_supabase (src/utils/supabase_client.py): the rows of *)
(* the ticker in candles_15m, unique by timestamp, read page by page.      *)
(***************************************************************************)
\* batch_size (1000 in the code), scaled to the modelled store
BatchSize == 2

\* the answer to one query: the first batch_size rows of the ticker with
\* timestamp >= current_start, in ascending timestamp (63-69)
StorePage(store, current_start) ==
    LET rows == SortValues(SelectSeq(store, LAMBDA c : c.start_time >= current_start))
    IN  IF Len(rows) <= BatchSize THEN rows ELSE SubSeq(rows, 1, BatchSize)

\* the return after the loop (84-98): None when nothing was read
ReadReturns(r) ==
    [r EXCEPT !.pc = "done",
              !.result = IF r.all_data = <<>> THEN None ELSE Some(r.all_data)]

\* (a slip to test C30 against: the next page asked from the last timestamp
\* itself)
read_step_FromLast(r, store, response) ==
    LET asked == [r EXCEPT !.requests = @ + 1]
    IN  IF response = "fails"
        THEN [asked EXCEPT !.pc = "done", !.result = None, !.failed = TRUE]
        ELSE LET data == StorePage(store, r.current_start)
             IN  IF data = <<>> THEN ReadReturns(asked)
                 ELSE LET kept == [asked EXCEPT !.all_data = @ \o data]
                      IN  IF Len(data) < BatchSize THEN ReadReturns(kept)
                          ELSE [kept EXCEPT
                                   !.current_start = data[Len(data)].start_time]

\* one turn of the loop (62-82); a query that raises ends the call with None
\* (100-102)
read_step(r, store, response) ==
    LET asked == [r EXCEPT !.requests = @ + 1]
    IN  IF response = "fails"
        THEN [asked EXCEPT !.pc = "done", !.result = None, !.failed = TRUE]
        ELSE LET data == StorePage(store, r.current_start)
             IN  IF data = <<>> THEN ReadReturns(asked)
                 ELSE LET kept == [asked EXCEPT !.all_data = @ \o data]
                      IN  IF Len(data) < BatchSize THEN ReadReturns(kept)
                          ELSE [kept EXCEPT
                                   !.current_start = data[Len(data)].start_time + 1]

\* the call: start_date = now - days (53), for a range of days that begins
\* at the epoch, or at the instant of the candle of 03:15 of day 1
ReadStart ==
    /\ reader = Idle
    /\ \E start_date \in {0, 96 + 13} :
          reader' = [pc |-> "reading", start_date |-> start_date,
                     current_start |-> start_date, all_data |-> <<>>,
                     requests |-> 0, failed |-> FALSE, result |-> None]
    /\ UNCHANGED <<market, selected_weekdays_numeric, now, local_today,
                   pivot_data, pivot_stats, analysis, view, pivot_data_written>>
    /\ UNCHANGED <<fetch, backfill, cache, session>>

ReadPage ==
    /\ reader.pc = "reading"
    /\ \E response \in {"ok", "fails"} :
          reader' = read_step(reader, market.m15, response)
    /\ UNCHANGED <<market, selected_weekdays_numeric, now, local_today,
                   pivot_data, pivot_stats, analysis, view, pivot_data_written>>
    /\ UNCHANGED <<fetch, backfill, cache, session>>

\* the store holds one of the histories of the 15-minute grid; the read
\* orders and filters by timestamp only, so the candles are of one shape
InitRead ==
    /\ now \in Clocks15
    /\ \E h \in FetchHistories :
          /\ NoFuture(h, now)
          /\ market = [m15 |-> h, d |-> <<>>]
    /\ selected_weekdays_numeric = AllWeekdays
    /\ local_today = now.date
    /\ pivot_data = None
    /\ pivot_stats = [days_analyzed |-> 0]
    /\ analysis = None
    /\ view = None
    /\ pivot_data_written = {}
    /\ ServicesIdle

NextRead == ReadStart \/ ReadPage

\* the call is made and every query is answered
SpecRead == InitRead /\ [][NextRead]_vars /\ WF_vars(NextRead)

\* the stored rows from the start instant on, in ascending timestamp
StoredFrom(start_date) ==
    SeriesOf({c \in Range(market.m15) : c.start_time >= start_date})

ReadSafe ==
    reader.pc # "idle" =>
        /\ reader.requests <= Len(StoredFrom(reader.start_date)) \div BatchSize + 1
        /\ (reader.pc = "done" /\ ~reader.failed) =>
              /\ reader.all_data = StoredFrom(reader.start_date)
              /\ reader.result = IF StoredFrom(reader.start_date) = <<>> THEN None
                                 ELSE Some(StoredFrom(reader.start_date))
        /\ (reader.pc = "done" /\ reader.failed) => reader.result = None

\* C30: the paginated read ends, after at most one query more than the
\* store has full pages from the start instant on, and when no query failed
\* it has read every stored row with timestamp >= the start instant exactly
\* once, in ascending timestamp (None when there is none).
C30_ReadsEveryRowOnce == []ReadSafe /\ <>(reader.pc = "done")

\* exactly one full page of rows: read in two queries, the second one empty
C30_Witness ==
    /\ reader.pc = "done"
    /\ ~reader.failed
    /\ Len(reader.all_data) = BatchSize
    /\ reader.requests = 2
\* three rows: a full page and a short one
C30_WitnessShortPage ==
    /\ reader.pc = "done" /\ ~reader.failed
    /\ Len(reader.all_data) = BatchSize + 1
    /\ reader.requests = 2
\* fewer rows than a page
C30_WitnessOnePage ==
    /\ reader.pc = "done" /\ ~reader.failed
    /\ Len(reader.all_data) = 1
    /\ reader.requests = 1
    /\ reader.start_date = reader.all_data[1].start_time

====
